---- MODULE Spec2Model ----
(***************************************************************************)
(* A model of the tiered clip-localization pipeline:                       *)
(*   qwen_client.py      QwenClient (retry loop, dual-protocol dispatch,   *)
(*                       structured-response parsing)                      *)
(*   identify_broll.py   Tier1 identification and relevance scoring        *)
(* Strings the code inspects (model identifiers, media references,         *)
(* response texts, keywords) are sequences of tokens, so that startswith,  *)
(* strip, split, join and substring tests are computed, not assumed.       *)
(***************************************************************************)
EXTENDS Integers, Sequences, FiniteSets, TLC

VARIABLES
    \* ---- QwenClient.analyze_video: one logical call at a time ----
    model,            \* model variant identifier of the current call
    video_path,       \* media reference of the current call
    file_exists,      \* Path(video_path).exists() for this call
    openai_installed, \* whether `from openai import OpenAI` succeeds
    openai_client,    \* self.openai_client (None until lazily created)
    pc,               \* position of the call in the client code
    attempt,          \* the loop variable of the retry loop
    last_error,       \* last_error of the retry loop
    script,           \* what the transport answers to this call's requests
    request_url,      \* the media URI put into the request messages
    events,           \* requests sent and sleeps slept by this call, in order
    response,         \* value returned by _make_request_*
    result,           \* what analyze_video returned or raised
    \* ---- QwenClient.analyze_video_structured ----
    raw_text,         \* text returned by analyze_video
    response_text,    \* the local variable response_text
    spc,              \* position in analyze_video_structured
    sresult,          \* what analyze_video_structured returned or raised
    \* ---- identify_broll.calculate_relevance_score ----
    clip,             \* the clip dict
    keywords,         \* the keyword list
    score,            \* the returned score, in hundredths
    kpc,              \* position in calculate_relevance_score
    \* ---- identify_broll.analyze_source_videos ----
    dir_exists,       \* source_path.exists()
    video_files,      \* the globbed video files, in processing order
    script_keywords,  \* the keywords of the run
    calls,            \* videos analyze_video_structured was called for, in order
    returned,         \* per call, the clips the model returned (<<>> if it failed)
    all_clips,        \* the list all_clips
    tpc,              \* position in analyze_source_videos
    output,           \* the result dict, or the error main reports
    \* ---- refine_broll_clip: main, refine_clip, extract_video_window ----
    source_exists,    \* Path(source_video).exists()
    api_key,          \* whether DASHSCOPE_API_KEY is set
    approx_start,     \* approx_start, in twentieths of a second
    approx_end,       \* approx_end, in twentieths of a second
    window_padding,   \* window_padding, in seconds
    ffmpeg_cmd,       \* the -ss and -t arguments handed to ffmpeg
    extraction_result,\* what extract_video_window returned
    t2response,       \* what analyze_video_structured returned or raised
    t2result,         \* what refine_clip returned or raised
    t2exit,           \* exit status of the process (-1 while running)
    rpc,              \* position in refine_broll_clip
    \* ---- human_refine_broll: main, interactive_refinement ----
    clip_exists,      \* Path(window_clip).exists()
    h_window_start,   \* window_start, in twentieths of a second
    h_model_start,    \* model_start, relative to the window
    h_model_end,      \* model_end, relative to the window
    stdin,            \* the lines not yet read
    answers,          \* the lines input() returned, in order
    prompts,          \* the questions shown, in order
    human_response,   \* what get_human_feedback returned
    t3result,         \* the record main prints, or the error
    t3exit,           \* exit status of the process (-1 while running)
    hpc,              \* position in human_refine_broll
    \* ---- refinements that share the workspace directory ----
    clock,            \* datetime.utcnow(), in whole seconds
    files,            \* the window clips in the workspace directory, by name
    jobs,             \* per refinement: position, window_output, results
    \* ---- calls that share one QwenClient ----
    threads           \* per call: position and the locals of the retry loop

clientVars == <<model, video_path, file_exists, openai_installed, openai_client,
                pc, attempt, last_error, script, request_url, events, response,
                result>>
structVars == <<raw_text, response_text, spc, sresult>>
scoreVars == <<clip, keywords, score, kpc>>
tier1Vars == <<dir_exists, video_files, script_keywords, calls, returned, all_clips,
               tpc, output>>
tier2Vars == <<source_exists, api_key, approx_start, approx_end, window_padding,
               ffmpeg_cmd, extraction_result, t2response, t2result, t2exit, rpc>>
tier3Vars == <<clip_exists, h_window_start, h_model_start, h_model_end, stdin,
               answers, prompts, human_response, t3result, t3exit, hpc>>
workspaceVars == <<clock, files, jobs>>
vars == <<clientVars, structVars, scoreVars, tier1Vars, tier2Vars, tier3Vars,
          workspaceVars, threads>>

notClient == <<structVars, scoreVars, tier1Vars, tier2Vars, tier3Vars,
     workspaceVars, threads>>
notStruct == <<clientVars, scoreVars, tier1Vars, tier2Vars, tier3Vars,
     workspaceVars, threads>>
notScore == <<clientVars, structVars, tier1Vars, tier2Vars, tier3Vars,
     workspaceVars, threads>>
notTier1 == <<clientVars, structVars, scoreVars, tier2Vars, tier3Vars,
     workspaceVars, threads>>
notTier2 == <<clientVars, structVars, scoreVars, tier1Vars, tier3Vars,
     workspaceVars, threads>>
notTier3 == <<clientVars, structVars, scoreVars, tier1Vars, tier2Vars,
     workspaceVars, threads>>
notThreads == <<structVars, scoreVars, tier1Vars, tier2Vars, tier3Vars, workspaceVars>>
clientLocals == <<model, video_path, file_exists, openai_installed, pc, attempt,
                  last_error, script, request_url, events, response, result>>
notWorkspace == <<clientVars, structVars, scoreVars, tier1Vars, tier2Vars, tier3Vars,
                  threads>>

----------------------------------------------------------------------------
(* Helpers on sequences *)

Last(s) == s[Len(s)]

\* str.startswith(prefix)
StartsWith(s, prefix) ==
    /\ Len(prefix) <= Len(s)
    /\ SubSeq(s, 1, Len(prefix)) = prefix

\* str.startswith((p1, p2, ...))
StartsWithAny(s, prefixes) == \E p \in prefixes : StartsWith(s, p)

\* `sub in t` on strings: sub occurs in t as a contiguous piece
Contains(t, sub) ==
    \E i \in 0..(Len(t) - Len(sub)) : SubSeq(t, i + 1, i + Len(sub)) = sub

Min(a, b) == IF a <= b THEN a ELSE b
Max(a, b) == IF a >= b THEN a ELSE b

SelectEvents(s, kind) == SelectSeq(s, LAMBDA ev : ev.e = kind)

----------------------------------------------------------------------------
(* QwenClient: constants and inputs *)

MAX_RETRIES == 5
BACKOFF_DELAYS == <<1, 2, 4, 8, 16>>

\* Number of distinct messages a transport exception can carry.
NumErr == 2

\* Model variant identifiers, as token sequences.
Models ==
    { <<"qwen3", "-vl", "-235b-a22b-thinking">>,   \* the default
      <<"qwen3", "-omni", "-flash">>,
      <<"qwen", "-omni", "-turbo">>,
      <<"x-", "qwen3", "-omni">> }                 \* contains, does not start with

\* Media references, as token sequences: a scheme token and a path.
MediaRefs ==
    { <<"http://", "cdn/v.mp4">>,
      <<"https://", "cdn/v.mp4">>,
      <<"file://", "/abs/v.mp4">>,
      <<"/abs/v.mp4">> }                           \* a local path

NoError == [kind |-> "none", id |-> 0]
NoScript == [on |-> FALSE, fails |-> <<>>]
NoResponse == [shape |-> "none"]
NoResult == [kind |-> "none", cause |-> NoError, text |-> <<>>]

\* The ways one attempt can fail, per protocol.
\*   exc        the SDK call raises
\*   status     native: response.status_code != 200
\*   nochoices  OpenAI-compatible: completion.choices is empty
Failures(p) ==
    {[kind |-> "exc", id |-> i] : i \in 1..NumErr}
    \cup (IF p = "dashscope" THEN {[kind |-> "status", id |-> 0]}
                             ELSE {[kind |-> "nochoices", id |-> 0]})

\* A transport fails its first Len(fails) requests of the call, then answers;
\* one that fails MAX_RETRIES requests fails every request the loop can make.
Scripts(p) ==
    {[on |-> TRUE, fails |-> f] :
        f \in UNION {[1..k -> Failures(p)] : k \in 0..MAX_RETRIES}}

\* What a successful response of the native protocol can look like.
Shapes(p) == IF p = "dashscope" THEN {"str", "list", "nochoices"} ELSE {"str"}

\* content of a native response whose message content is a list
ContentList ==
    << [k |-> "dict", text |-> "t1"],
       [k |-> "image", text |-> ""],
       [k |-> "str", text |-> "t2"] >>

Requests == SelectEvents(events, "req")
Sleeps == SelectEvents(events, "sleep")
Delays == [i \in 1..Len(Sleeps) |-> Sleeps[i].d]

----------------------------------------------------------------------------
(* QwenClient *)

\* routing on the family name anywhere in the identifier, not at its start
_is_omni_model_Anywhere(m) ==
    \E i \in 1..Len(m) : m[i] = "-omni"

_is_omni_model(m) ==
    StartsWith(m, <<"qwen3", "-omni">>) \/ StartsWith(m, <<"qwen", "-omni">>)

\* analyze_video line 237: not a URL the client passes through unchanged
IsLocalPath(ref) == ~StartsWithAny(ref, {<<"http://">>, <<"https://">>, <<"file://">>})

\* a URL test that lets file:// references through
IsHttpUrl_AnyUrl(ref) ==
    StartsWithAny(ref, {<<"http://">>, <<"https://">>, <<"file://">>})

\* _analyze_with_openai line 318
IsHttpUrl(ref) == StartsWithAny(ref, {<<"http://">>, <<"https://">>})

\* the test `attempt < self.MAX_RETRIES - 1` of both retry loops
ShouldRetry(a) == a < MAX_RETRIES - 1

\* the delay table indexed by the one-based attempt number
BackoffDelay_Shifted(a) == BACKOFF_DELAYS[a + 2]

\* `self.BACKOFF_DELAYS[attempt]` (zero-based in the code)
BackoffDelay(a) == BACKOFF_DELAYS[a + 1]

\* a loop that runs once more than MAX_RETRIES
InLoop_OneMore(a) == a <= MAX_RETRIES

\* the loop condition of `for attempt in range(self.MAX_RETRIES)`
InLoop(a) == a < MAX_RETRIES

\* a loop that keeps the first error instead of the last
KeepError_First(old, e) == IF old.kind = "none" THEN e ELSE old

\* the error kept on a failed attempt: `last_error = e`
KeepError(old, e) == e

\* a handler that retries transport exceptions only
Caught_OnlyTransport(e) == e.kind = "exc"

\* `except Exception as e`: every failure of an attempt is an Exception
Caught(e) == TRUE

\* '\n'.join of the text parts of a list content
RECURSIVE JoinTextParts(_)
JoinTextParts(items) ==
    IF items = <<>> THEN <<>>
    ELSE LET rest == JoinTextParts(Tail(items))
             h == Head(items)
         IN  IF h.k \in {"dict", "str"}
             THEN (IF rest = <<>> THEN <<h.text>> ELSE <<h.text, "\n">> \o rest)
             ELSE rest

\* The transport's answer to the n-th request of the call.
TransportAnswer(s, n) ==
    IF n <= Len(s.fails) THEN s.fails[n] ELSE [kind |-> "ok", id |-> 0]

Done(kind, cause, text) ==
    /\ pc' = "done"
    /\ result' = [kind |-> kind, cause |-> cause, text |-> text]

\* analyze_video: validate a local path, then route on the model identifier
AnalyzeVideo ==
    /\ pc = "analyze_video"
    /\ IF IsLocalPath(video_path) /\ ~file_exists
       THEN Done("FileNotFoundError", NoError, <<>>)
       ELSE /\ pc' = IF _is_omni_model(model) THEN "analyze_with_openai"
                                               ELSE "analyze_with_dashscope"
            /\ UNCHANGED result
    /\ UNCHANGED <<model, video_path, file_exists, openai_installed, openai_client,
                   attempt, last_error, script, request_url, events, response>>
    /\ UNCHANGED notClient

\* _analyze_with_dashscope up to the call of _make_request_dashscope
AnalyzeWithDashscope ==
    /\ pc = "analyze_with_dashscope"
    /\ request_url' = IF IsLocalPath(video_path) THEN <<"file://">> \o video_path
                                                 ELSE video_path
    /\ \E s \in Scripts("dashscope") : script' = s
    /\ attempt' = 0
    /\ last_error' = NoError
    /\ pc' = "dashscope_loop"
    /\ UNCHANGED <<model, video_path, file_exists, openai_installed, openai_client,
                   events, response, result>>
    /\ UNCHANGED notClient

\* _analyze_with_openai up to the call of _make_request_openai
AnalyzeWithOpenai ==
    /\ pc = "analyze_with_openai"
    /\ IF ~IsHttpUrl(video_path)
       THEN Done("ValueError", NoError, <<>>) /\ UNCHANGED request_url
       ELSE /\ request_url' = video_path
            /\ pc' = "init_openai_client"
            /\ UNCHANGED result
    /\ UNCHANGED <<model, video_path, file_exists, openai_installed, openai_client,
                   attempt, last_error, script, events, response>>
    /\ UNCHANGED notClient

\* _init_openai_client, then the head of _make_request_openai
InitOpenaiClient ==
    /\ pc = "init_openai_client"
    /\ IF openai_client = "None" /\ ~openai_installed
       THEN /\ Done("ImportError", NoError, <<>>)
            /\ UNCHANGED <<openai_client, script, attempt, last_error>>
       ELSE /\ openai_client' = "OpenAI"
            /\ \E s \in Scripts("openai") : script' = s
            /\ attempt' = 0
            /\ last_error' = NoError
            /\ pc' = "openai_loop"
            /\ UNCHANGED result
    /\ UNCHANGED <<model, video_path, file_exists, openai_installed, request_url,
                   events, response>>
    /\ UNCHANGED notClient

\* One iteration of a retry loop up to its sleep: the request, and the
\* except-branch when it fails.
Attempt(p) ==
    /\ pc = p \o "_loop"
    /\ InLoop(attempt)
    /\ events' = Append(events, [e |-> "req", p |-> p, d |-> 0])
    /\ LET ans == TransportAnswer(script, Len(Requests) + 1)
       IN  IF ans.kind = "ok"
           THEN /\ \E sh \in Shapes(p) : response' = [shape |-> sh]
                /\ pc' = p \o "_return"
                /\ UNCHANGED <<attempt, last_error, result>>
           ELSE IF Caught(ans)
           THEN /\ last_error' = KeepError(last_error, ans)
                /\ IF ShouldRetry(attempt)
                   THEN pc' = p \o "_sleep" /\ UNCHANGED attempt
                   ELSE pc' = p \o "_loop" /\ attempt' = attempt + 1
                /\ UNCHANGED <<response, result>>
           ELSE /\ Done("Exception", ans, <<>>)     \* propagates out of the loop
                /\ UNCHANGED <<attempt, last_error, response>>
    /\ UNCHANGED <<model, video_path, file_exists, openai_installed, openai_client,
                   script, request_url>>
    /\ UNCHANGED notClient

\* time.sleep(delay), then the next iteration
Backoff(p) ==
    /\ pc = p \o "_sleep"
    /\ events' = Append(events, [e |-> "sleep", p |-> p, d |-> BackoffDelay(attempt)])
    /\ attempt' = attempt + 1
    /\ pc' = p \o "_loop"
    /\ UNCHANGED <<model, video_path, file_exists, openai_installed, openai_client,
                   last_error, script, request_url, response, result>>
    /\ UNCHANGED notClient

\* the raise after the loop
Exhausted(p) ==
    /\ pc = p \o "_loop"
    /\ ~InLoop(attempt)
    /\ Done("Fatal", last_error, <<>>)
    /\ UNCHANGED <<model, video_path, file_exists, openai_installed, openai_client,
                   attempt, last_error, script, request_url, events, response>>
    /\ UNCHANGED notClient

DashscopeAttempt == Attempt("dashscope")
DashscopeBackoff == Backoff("dashscope")
DashscopeExhausted == Exhausted("dashscope")
OpenaiAttempt == Attempt("openai")
OpenaiBackoff == Backoff("openai")
OpenaiExhausted == Exhausted("openai")

\* _analyze_with_dashscope after _make_request_dashscope returned
DashscopeExtract ==
    /\ pc = "dashscope_return"
    /\ CASE response.shape = "str" -> Done("return", NoError, <<"t1">>)
         [] response.shape = "list" -> Done("return", NoError, JoinTextParts(ContentList))
         [] OTHER -> Done("UnexpectedFormat", NoError, <<>>)
    /\ UNCHANGED <<model, video_path, file_exists, openai_installed, openai_client,
                   attempt, last_error, script, request_url, events, response>>
    /\ UNCHANGED notClient

\* _make_request_openai returns the content; _analyze_with_openai returns it
OpenaiReturn ==
    /\ pc = "openai_return"
    /\ Done("return", NoError, <<"t1">>)
    /\ UNCHANGED <<model, video_path, file_exists, openai_installed, openai_client,
                   attempt, last_error, script, request_url, events, response>>
    /\ UNCHANGED notClient

\* The next logical call on the same client object.
NewCall ==
    /\ pc = "done"
    /\ model' \in Models
    /\ video_path' \in MediaRefs
    /\ file_exists' \in BOOLEAN
    /\ IsLocalPath(video_path') \/ ~file_exists'
    /\ pc' = "analyze_video"
    /\ attempt' = 0
    /\ last_error' = NoError
    /\ script' = NoScript
    /\ request_url' = <<>>
    /\ events' = <<>>
    /\ response' = NoResponse
    /\ result' = NoResult
    /\ UNCHANGED <<openai_installed, openai_client>>
    /\ UNCHANGED notClient

----------------------------------------------------------------------------
(* QwenClient.analyze_video_structured: texts are sequences of tokens *)

\* the three backticks of a markdown code fence, as one token
FENCE == "<fence>"
Whitespace == {" ", "\n"}
\* tokens a response body is made of
BodyTokens == {FENCE, "\n", " ", "1", "[", "]"}

\* longest response body enumerated
MaxBody == 3

Bodies == UNION {[1..n -> BodyTokens] : n \in 0..MaxBody}
FenceOpenings == {<<FENCE, "\n">>, <<FENCE, "json", "\n">>}
FenceClosing == <<"\n", FENCE>>

\* The texts the model can answer with: a body, bare or inside one or two
\* fence layers, closed or not, with or without surrounding whitespace.
RawTexts ==
    {pre \o op \o b \o cl \o post :
        pre \in {<<>>, <<" ">>},
        op \in {<<>>, <<FENCE, "\n", FENCE, "json", "\n">>} \cup FenceOpenings,
        b \in Bodies,
        cl \in {<<>>, FenceClosing, FenceClosing \o FenceClosing},
        post \in {<<>>, <<"\n">>}}

NoSResult == [kind |-> "none", value |-> <<>>, text |-> <<>>]

RECURSIVE LStrip(_)
LStrip(t) == IF t # <<>> /\ Head(t) \in Whitespace THEN LStrip(Tail(t)) ELSE t

RECURSIVE RStrip(_)
RStrip(t) ==
    IF t # <<>> /\ Last(t) \in Whitespace THEN RStrip(SubSeq(t, 1, Len(t) - 1)) ELSE t

\* a strip that forgets the right end
Strip_LeftOnly(t) == LStrip(t)

\* str.strip()
Strip(t) == RStrip(LStrip(t))

\* str.split('\n'): always at least one line
RECURSIVE SplitLines(_)
SplitLines(t) ==
    IF t = <<>> THEN << <<>> >>
    ELSE LET rest == SplitLines(Tail(t))
         IN  IF Head(t) = "\n" THEN << <<>> >> \o rest
             ELSE << <<Head(t)>> \o Head(rest) >> \o Tail(rest)

\* '\n'.join(lines)
RECURSIVE JoinLines(_)
JoinLines(lines) ==
    IF lines = <<>> THEN <<>>
    ELSE IF Len(lines) = 1 THEN Head(lines)
    ELSE Head(lines) \o <<"\n">> \o JoinLines(Tail(lines))

\* lines 376-377: drop the last line when it is a fence (lines is not empty)
DropClosingFence(lines) ==
    IF Strip(Last(lines)) = <<FENCE>> THEN SubSeq(lines, 1, Len(lines) - 1) ELSE lines

\* json.loads on the token grammar
\*   text  ::= ws value ws
\*   value ::= "1"+  |  "[" ws "]"  |  "[" ws value ws "]"
\* The value is the text without its insignificant whitespace.
RECURSIVE Digits(_)
Digits(t) == IF t # <<>> /\ Head(t) = "1" THEN <<"1">> \o Digits(Tail(t)) ELSE <<>>

ParseFail == [ok |-> FALSE, value |-> <<>>, rest |-> <<>>]

RECURSIVE ParseValue(_)
ParseValue(t) ==
    IF t = <<>> THEN ParseFail
    ELSE IF Head(t) = "1"
    THEN LET ds == Digits(t)
         IN  [ok |-> TRUE, value |-> ds, rest |-> SubSeq(t, Len(ds) + 1, Len(t))]
    ELSE IF Head(t) = "["
    THEN LET u == LStrip(Tail(t))
         IN  IF u # <<>> /\ Head(u) = "]"
             THEN [ok |-> TRUE, value |-> <<"[", "]">>, rest |-> Tail(u)]
             ELSE LET r == ParseValue(u)
                      v == LStrip(r.rest)
                  IN  IF r.ok /\ v # <<>> /\ Head(v) = "]"
                      THEN [ok |-> TRUE, value |-> <<"[">> \o r.value \o <<"]">>,
                            rest |-> Tail(v)]
                      ELSE ParseFail
    ELSE ParseFail

JsonLoads(t) ==
    LET r == ParseValue(LStrip(t))
    IN  IF r.ok /\ LStrip(r.rest) = <<>> THEN [ok |-> TRUE, value |-> r.value]
        ELSE [ok |-> FALSE, value |-> <<>>]

\* the text put into the error of lines 383-386: the local response_text
ErrorText(raw, processed) == processed

\* line 364: analyze_video returns the model's text, or raises
StructuredCall ==
    /\ spc = "analyze_video"
    /\ \/ /\ raw_text' \in RawTexts
          /\ spc' = "parse"
          /\ UNCHANGED sresult
       \/ /\ spc' = "done"
          /\ sresult' = [kind |-> "Fatal", value |-> <<>>, text |-> <<>>]
          /\ UNCHANGED raw_text
    /\ UNCHANGED response_text
    /\ UNCHANGED notStruct

\* a call that asks the model again when the text did not parse
AfterParse_AskAgain(ok) == IF ok THEN "done" ELSE "analyze_video"

\* lines 380-386: json.loads returns or raises, and the call is over
AfterParse(ok) == "done"

\* lines 366-386: strip, remove one fence layer, json.loads
StructuredParse ==
    /\ spc = "parse"
    /\ LET stripped == Strip(raw_text)
           fenced == StartsWith(stripped, <<FENCE>>)
           body == Tail(SplitLines(stripped))
       IN  IF fenced /\ body = <<>>
           THEN \* lines[-1] of an empty list
                /\ response_text' = stripped
                /\ sresult' = [kind |-> "IndexError", value |-> <<>>, text |-> <<>>]
           ELSE LET text == IF fenced THEN JoinLines(DropClosingFence(body))
                                      ELSE stripped
                    parsed == JsonLoads(text)
                IN  /\ response_text' = text
                    /\ sresult' =
                         IF parsed.ok
                         THEN [kind |-> "return", value |-> parsed.value, text |-> <<>>]
                         ELSE [kind |-> "Malformed", value |-> <<>>,
                               text |-> ErrorText(raw_text, text)]
    /\ spc' = AfterParse(sresult'.kind = "return")
    /\ UNCHANGED raw_text
    /\ UNCHANGED notStruct

\* the response texts followed through the retry loop: those of at most
\* two tokens
ShortTexts == {t \in RawTexts : Len(t) <= 2}

\* line 364, when the client is followed attempt by attempt:
\* analyze_video is called with the default model and a local file
StructuredStart ==
    /\ spc = "analyze_video"
    /\ pc = "idle"
    /\ spc' = "in_call"
    /\ pc' = "analyze_video"
    /\ model' = <<"qwen3", "-vl", "-235b-a22b-thinking">>
    /\ video_path' \in {<<"/abs/v.mp4">>, <<"v.mp4">>}
    /\ file_exists' \in BOOLEAN
    /\ UNCHANGED <<openai_installed, openai_client, attempt, last_error, script,
                   request_url, events, response, result>>
    /\ UNCHANGED <<raw_text, response_text, sresult>>
    /\ UNCHANGED <<scoreVars, tier1Vars, tier2Vars, tier3Vars, workspaceVars, threads>>

\* line 364: analyze_video is over; its exception leaves the structured
\* call, its text (whatever the model wrote) goes on to lines 366-386
StructuredReceive ==
    /\ spc = "in_call"
    /\ pc = "done"
    /\ pc' = "idle"
    /\ IF result.kind = "return"
       THEN /\ raw_text' \in ShortTexts
            /\ spc' = "parse"
            /\ UNCHANGED sresult
       ELSE /\ spc' = "done"
            /\ sresult' = [kind |-> result.kind, value |-> <<>>, text |-> <<>>]
            /\ UNCHANGED raw_text
    /\ UNCHANGED <<model, video_path, file_exists, openai_installed, openai_client,
                   attempt, last_error, script, request_url, events, response, result>>
    /\ UNCHANGED response_text
    /\ UNCHANGED <<scoreVars, tier1Vars, tier2Vars, tier3Vars, workspaceVars, threads>>

----------------------------------------------------------------------------
(* identify_broll.calculate_relevance_score *)
(* Scores are integers in hundredths; strings are token sequences, a token *)
(* being a character or an opaque word.                                    *)

\* str.lower() on one token
LowerToken(tok) ==
    CASE tok = "A" -> "a"
      [] tok = "I" -> "i"
      [] tok = "Productivity" -> "productivity"
      [] tok = "N" -> "n"
      [] tok = "G" -> "g"
      [] OTHER -> tok

\* str.lower()
Lower(t) == [i \in 1..Len(t) |-> LowerToken(t[i])]

\* quality weights ten times too large
QualityWeight_Tens(c) ==
    IF ~c.has_quality THEN 60
    ELSE CASE c.visual_quality = "high" -> 100
           [] c.visual_quality = "medium" -> 60
           [] c.visual_quality = "low" -> 30
           [] OTHER -> 60

\* quality_map.get(clip.get("visual_quality", "medium"), 0.6), in tenths
QualityWeight(c) ==
    IF ~c.has_quality THEN 6
    ELSE CASE c.visual_quality = "high" -> 10
           [] c.visual_quality = "medium" -> 6
           [] c.visual_quality = "low" -> 3
           [] OTHER -> 6

\* round(num / den, 2) in hundredths, for num / den in units of 1: the
\* nearest hundredth; at an exact tie the binary floating-point error of the
\* sum decides, so either neighbour can come out.
Round2(num, den) ==
    LET q == (100 * num) \div den
        r == (100 * num) % den
    IN  IF 2 * r < den THEN {q}
        ELSE IF 2 * r > den THEN {q + 1}
        ELSE {q, q + 1}

\* lines 98-104: str(k).lower().strip() for each keyword
KeywordsLower(kws) == [i \in 1..Len(kws) |-> Strip(Lower(kws[i]))]

\* line 110: keywords that occur in at least one lower-cased tag
TagMatches(c, kws) ==
    LET tags == IF c.has_tags THEN c.tags ELSE <<>>
        kl == KeywordsLower(kws)
    IN  Cardinality({i \in 1..Len(kl) :
                        \E j \in 1..Len(tags) : Contains(Lower(tags[j]), kl[i])})

\* line 115: keywords that occur in the lower-cased description
DescMatches(c, kws) ==
    LET description == IF c.has_description THEN c.description ELSE <<>>
        kl == KeywordsLower(kws)
    IN  Cardinality({i \in 1..Len(kl) : Contains(Lower(description), kl[i])})

\* the score with the two keyword weights exchanged
calculate_relevance_score_Swapped(c, kws) ==
    LET n == Max(Len(kws), 1)
    IN  Round2(300 * Min(TagMatches(c, kws), n) + 500 * Min(DescMatches(c, kws), n)
                 + 20 * QualityWeight(c) * n,
               1000 * n)

\* The values calculate_relevance_score can return, in hundredths.
\*   tag_score     = min(tag_matches / max(len, 1), 1.0) * 0.5
\*   desc_score    = min(desc_matches / max(len, 1), 1.0) * 0.3
\*   quality_score = weight * 0.2
\* summed over the common denominator 1000 * max(len, 1).
calculate_relevance_score(c, kws) ==
    LET n == Max(Len(kws), 1)
    IN  Round2(500 * Min(TagMatches(c, kws), n) + 300 * Min(DescMatches(c, kws), n)
                 + 20 * QualityWeight(c) * n,
               1000 * n)

\* longest keyword list enumerated
MaxKeywords == 4

KeywordPool == { <<"a", "i">>, <<"tools">>, <<"I">>, <<>> }
TagLists ==
    { <<>>,
      << <<"A", "I">>, <<"Productivity">> >>,
      << <<"tools">> >>,
      << <<"Productivity">>, <<"x">> >> }
Descriptions ==
    { <<"uses", " ", "a", "i", " ", "tools", " ", "daily">>,
      <<"A">>,
      <<>> }
QualityLabels == {"high", "medium", "low", "High"}

\* The clip dicts of a model response: every key can be missing.
ClipDicts ==
    [has_tags : {TRUE}, tags : TagLists,
     has_description : {TRUE}, description : Descriptions,
     has_quality : {TRUE}, visual_quality : QualityLabels]
    \cup [has_tags : {FALSE}, tags : {<<>>},
          has_description : {TRUE}, description : Descriptions,
          has_quality : {FALSE}, visual_quality : {""}]
    \cup [has_tags : {TRUE}, tags : TagLists,
          has_description : {FALSE}, description : {<<>>},
          has_quality : {TRUE}, visual_quality : QualityLabels]

KeywordLists == UNION {[1..n -> KeywordPool] : n \in 0..MaxKeywords}

NoClip == [has_tags |-> FALSE, tags |-> <<>>, has_description |-> FALSE,
           description |-> <<>>, has_quality |-> FALSE, visual_quality |-> ""]

CalculateRelevanceScore ==
    /\ kpc = "call"
    /\ score' \in calculate_relevance_score(clip, keywords)
    /\ kpc' = "done"
    /\ UNCHANGED <<clip, keywords>>
    /\ UNCHANGED notScore

----------------------------------------------------------------------------
(* identify_broll.identify_broll_clips and analyze_source_videos *)

\* most video files in the source directory
MaxVideos == 2
\* most clips in one model response
MaxClips == 2

\* The clips a response can hold: the i-th one starts at 10 * i seconds.
ResponseClips ==
    LET pool == { [has_tags |-> TRUE, tags |-> << <<"A", "I">>, <<"Productivity">> >>,
                   has_description |-> TRUE,
                   description |-> <<"uses", " ", "a", "i", " ", "tools", " ", "daily">>,
                   has_quality |-> TRUE, visual_quality |-> "high"],
                  [has_tags |-> FALSE, tags |-> <<>>,
                   has_description |-> TRUE, description |-> <<"A">>,
                   has_quality |-> FALSE, visual_quality |-> ""],
                  [has_tags |-> TRUE, tags |-> << <<"A", "I">>, <<"tools">> >>,
                   has_description |-> FALSE, description |-> <<>>,
                   has_quality |-> TRUE, visual_quality |-> "high"] }
    IN  UNION {[1..n -> pool] : n \in 0..MaxClips}

NoOutput == [kind |-> "none", error |-> "", clips |-> <<>>, total_clips |-> 0,
             high_quality_clips |-> 0, avg_relevance |-> 0, exit |-> 0]

\* a threshold that leaves out the score 0.70 itself
Recommended_Strict(h) == h > 70

\* line 169: clip["relevance_score"] >= 0.7, the score in hundredths
Recommended(h) == h >= 70

\* lines 165-169 for the clip at position i of a response: the scored clip
\* dicts it can become
ScoredClip(c, i, video, kws) ==
    { [source_video |-> video, start_time |-> 10 * i, end_time |-> 10 * i + 5,
       duration |-> (10 * i + 5) - (10 * i), body |-> c,
       relevance_score |-> h, recommended |-> Recommended(h)] :
         h \in calculate_relevance_score(c, kws) }

RECURSIVE ScoredClips(_, _, _, _)
ScoredClips(cs, i, video, kws) ==
    IF i > Len(cs) THEN {<<>>}
    ELSE {<<h>> \o t : h \in ScoredClip(cs[i], i, video, kws),
                       t \in ScoredClips(cs, i + 1, video, kws)}

\* insertion of x before the elements of equal score
RECURSIVE InsertByScore_BeforeEqual(_, _)
InsertByScore_BeforeEqual(sorted, x) ==
    IF sorted = <<>> THEN <<x>>
    ELSE IF Head(sorted).relevance_score > x.relevance_score
    THEN <<Head(sorted)>> \o InsertByScore_BeforeEqual(Tail(sorted), x)
    ELSE <<x>> \o sorted

\* insertion of x behind every element whose score is not smaller
RECURSIVE InsertByScore(_, _)
InsertByScore(sorted, x) ==
    IF sorted = <<>> THEN <<x>>
    ELSE IF Head(sorted).relevance_score >= x.relevance_score
    THEN <<Head(sorted)>> \o InsertByScore(Tail(sorted), x)
    ELSE <<x>> \o sorted

\* list.sort(key=relevance_score, reverse=True): stable, descending
RECURSIVE SortByScore(_)
SortByScore(cs) ==
    IF cs = <<>> THEN <<>>
    ELSE InsertByScore(SortByScore(SubSeq(cs, 1, Len(cs) - 1)), Last(cs))

RECURSIVE SumScores(_)
SumScores(cs) ==
    IF cs = <<>> THEN 0 ELSE Head(cs).relevance_score + SumScores(Tail(cs))

\* main's except-branch: the error is printed and the process exits with 1
Tier1Fail(err) ==
    /\ tpc' = "done"
    /\ output' = [NoOutput EXCEPT !.kind = "error", !.error = err, !.exit = 1]

\* analyze_source_videos lines 188-204
FindVideos ==
    /\ tpc = "start"
    /\ IF ~dir_exists THEN Tier1Fail("FileNotFoundError")
       ELSE IF video_files = <<>> THEN Tier1Fail("ValueError")
       ELSE tpc' = "loop" /\ UNCHANGED output
    /\ UNCHANGED <<dir_exists, video_files, script_keywords, calls, returned, all_clips>>
    /\ UNCHANGED notTier1

\* One iteration of the loop of lines 208-210: identify_broll_clips for the
\* next video, and all_clips.extend.
IdentifyBrollClips ==
    /\ tpc = "loop"
    /\ Len(calls) < Len(video_files)
    /\ LET video == video_files[Len(calls) + 1]
       IN  /\ calls' = Append(calls, video)
           /\ \/ \* the call raises: `except Exception` logs it and returns []
                 /\ returned' = Append(returned, [kind |-> "raise", clips |-> <<>>])
                 /\ UNCHANGED <<all_clips, tpc, output>>
              \/ \* the call returns JSON that is not an object: response.get
                 \* raises AttributeError outside the try
                 /\ returned' = Append(returned, [kind |-> "notdict", clips |-> <<>>])
                 /\ Tier1Fail("AttributeError")
                 /\ UNCHANGED all_clips
              \/ \* the call returns an object; a missing "clips" key is []
                 \E cs \in ResponseClips :
                 \E scored \in ScoredClips(cs, 1, video, script_keywords) :
                    /\ returned' = Append(returned, [kind |-> "dict", clips |-> scored])
                    /\ all_clips' = all_clips \o scored
                    /\ UNCHANGED <<tpc, output>>
    /\ UNCHANGED <<dir_exists, video_files, script_keywords>>
    /\ UNCHANGED notTier1

\* lines 212-230, and main's output: sort, statistics, result
Tier1Finish ==
    /\ tpc = "loop"
    /\ Len(calls) >= Len(video_files)
    /\ LET sorted == SortByScore(all_clips)
           high == Len(SelectSeq(sorted, LAMBDA c : c.recommended))
       IN  /\ all_clips' = sorted
           /\ \E avg \in Round2(SumScores(sorted), 100 * Max(Len(sorted), 1)) :
                 output' = [kind |-> "result", error |-> "", clips |-> sorted,
                            total_clips |-> Len(sorted), high_quality_clips |-> high,
                            avg_relevance |-> avg, exit |-> 0]
    /\ tpc' = "done"
    /\ UNCHANGED <<dir_exists, video_files, script_keywords, calls, returned>>
    /\ UNCHANGED notTier1

----------------------------------------------------------------------------
(* refine_broll_clip: extract_video_window, refine_clip and main           *)
(*                                                                         *)
(* Times are integers counting twentieths of a second, so that the mean of *)
(* two estimates given in tenths is again an integer; confidences are in   *)
(* hundredths.                                                             *)

\* n seconds
Sec(n) == 20 * n

\* the Tier 1 estimates a refinement is started with
ApproxStarts == {0, Sec(3), 104, Sec(83)}
ApproxEnds == {Sec(7), 214, Sec(88)}
\* the window_padding argument, in seconds
Paddings == {0, 15, 20}

T2Checks == {"clean_start", "clean_end", "no_humans", "complete_content",
             "matches_description"}

\* What the model put under the five check keys: every key true, one key
\* false, one key missing, every key false, every key missing.
CheckPatterns ==
    {[c \in T2Checks |-> "true"], [c \in T2Checks |-> "false"],
     [c \in T2Checks |-> "missing"]}
    \cup {[c \in T2Checks |-> IF c = x THEN "false" ELSE "true"] : x \in T2Checks}
    \cup {[c \in T2Checks |-> IF c = x THEN "missing" ELSE "true"] : x \in T2Checks}

\* window-relative timestamp pairs of a response: 3.0/9.0 and 5.2/10.7
ModelTimestamps == {[start_seconds |-> 60, end_seconds |-> 180],
                    [start_seconds |-> 104, end_seconds |-> 214]}

NoValidation == [checks |-> [c \in T2Checks |-> "missing"],
                 has_confidence |-> FALSE, confidence |-> 0,
                 has_issues |-> FALSE, issues |-> <<>>]

Validations ==
    [checks : CheckPatterns,
     has_confidence : {TRUE}, confidence : {0, 69, 70, 95},
     has_issues : {TRUE}, issues : {<< <<"starts late">> >>}]
    \cup [checks : CheckPatterns,
          has_confidence : {FALSE}, confidence : {0},
          has_issues : {FALSE}, issues : {<<>>}]

NoT2Response == [kind |-> "none", error |-> "", has_timestamp |-> FALSE,
                 timestamp |-> [start_seconds |-> 0, end_seconds |-> 0],
                 has_validation |-> FALSE, validation |-> NoValidation]

\* The outcomes of client.analyze_video_structured for the window clip: it
\* raises (retries exhausted, text that is not JSON, text that is only a
\* fence line), or returns a JSON value: one that is not an object, or an
\* object that has or lacks the "timestamp" and "validation" keys.
T2Responses ==
    {[NoT2Response EXCEPT !.kind = "raise", !.error = err] :
        err \in {"Fatal", "Malformed", "IndexError"}}
    \cup {[NoT2Response EXCEPT !.kind = "notdict"]}
    \cup [kind : {"dict"}, error : {""}, has_timestamp : {TRUE},
          timestamp : ModelTimestamps, has_validation : {TRUE},
          validation : Validations]
    \cup [kind : {"dict"}, error : {""}, has_timestamp : {FALSE},
          timestamp : {NoT2Response.timestamp}, has_validation : {TRUE},
          validation : {x \in Validations : x.confidence = 95}]
    \cup [kind : {"dict"}, error : {""}, has_timestamp : {TRUE},
          timestamp : ModelTimestamps, has_validation : {FALSE},
          validation : {NoValidation}]

NoCmd == [run |-> FALSE, ss |-> 0, t |-> 0]
NoExtraction == [success |-> FALSE, extracted_clip |-> "", window_start |-> 0,
                 window_end |-> 0, duration |-> 0, fps |-> 0]
NoRefined == [start |-> 0, end |-> 0, duration |-> 0]
NoT2Result == [kind |-> "none", error |-> "",
               tier1_estimate |-> [start |-> 0, end |-> 0],
               has_refined |-> FALSE, tier2_refined |-> NoRefined,
               extraction_window |-> NoExtraction,
               all_checks_pass |-> FALSE, confidence |-> 0, issues |-> <<>>,
               checks |-> [c \in T2Checks |-> FALSE]]

\* line 187
CenterTime(a, b) == (a + b) \div 2

\* line 125: start_time = max(0, center_time - padding)
WindowStartTime(center, padding) == Max(0, center - Sec(padding))

\* line 126: duration = padding * 2
WindowDuration(padding) == Sec(padding) * 2

\* a transform that leaves the window-relative value as it is
ToAbsolute_Identity(window_start, t) == t

\* lines 236-237: window-relative to source-absolute
ToAbsolute(window_start, t) == t + window_start

\* validation.get(check, False)
CheckValue(validation, c) == validation.checks[c] = "true"

\* all_checks_pass as soon as one check is true
AllChecksPass_Any(validation) == \E c \in T2Checks : CheckValue(validation, c)

\* lines 242-248
AllChecksPass(validation) == \A c \in T2Checks : CheckValue(validation, c)

\* a missing confidence taken as full confidence
Confidence_Trusting(validation) ==
    IF validation.has_confidence THEN validation.confidence ELSE 100

\* line 250: validation.get("confidence", 0.5)
Confidence(validation) ==
    IF validation.has_confidence THEN validation.confidence ELSE 50

\* an except clause that lets exhausted retries through
AnalysisFailureCaught_OnlyParse(err) == err # "Fatal"

\* line 302: except Exception
AnalysisFailureCaught(err) == TRUE

\* lines 307-322: the result of the except branch
FailureResult(err) ==
    [NoT2Result EXCEPT !.kind = "return", !.error = err,
        !.tier1_estimate = [start |-> approx_start, end |-> approx_end],
        !.extraction_window = extraction_result,
        !.issues = << <<"Analysis failed: ", err>> >>]

\* lines 233-300: the result built from a response object
SuccessResult(r) ==
    LET window_start == extraction_result.window_start
        refined_start == ToAbsolute(window_start, r.timestamp.start_seconds)
        refined_end == ToAbsolute(window_start, r.timestamp.end_seconds)
    IN  [kind |-> "return", error |-> "",
         tier1_estimate |-> [start |-> approx_start, end |-> approx_end],
         has_refined |-> TRUE,
         tier2_refined |-> [start |-> refined_start, end |-> refined_end,
                            duration |-> refined_end - refined_start],
         extraction_window |-> [clip_path |-> extraction_result.extracted_clip,
                                window_start |-> window_start,
                                window_end |-> extraction_result.window_end,
                                padding_used |-> window_padding, fps |-> 10],
         all_checks_pass |-> AllChecksPass(r.validation),
         confidence |-> Confidence(r.validation),
         issues |-> r.validation.issues,
         checks |-> [c \in T2Checks |-> CheckValue(r.validation, c)]]

\* the error the try block of lines 227-300 raises for a response, "" if none
ProcessingError(r) ==
    CASE r.kind = "raise" -> r.error
      [] r.kind = "notdict" -> "TypeError"
      [] ~r.has_timestamp -> "KeyError"
      [] ~r.has_validation -> "KeyError"
      [] OTHER -> ""

\* an error that is noted while the refinement carries on
Tier2Raise_CarryOn(err) ==
    /\ t2result' = [NoT2Result EXCEPT !.kind = "raise", !.error = err]
    /\ t2exit' = 1
    /\ rpc' = "analyze"

\* main's except branch: error JSON on stderr, exit status 1
Tier2Raise(err) ==
    /\ t2result' = [NoT2Result EXCEPT !.kind = "raise", !.error = err]
    /\ t2exit' = 1
    /\ rpc' = "done"

\* main lines 335-345
Tier2Main ==
    /\ rpc = "main"
    /\ IF source_exists THEN rpc' = "extract" /\ UNCHANGED t2exit
       ELSE rpc' = "done" /\ t2exit' = 1
    /\ UNCHANGED <<source_exists, api_key, approx_start, approx_end, window_padding,
                   ffmpeg_cmd, extraction_result, t2response, t2result>>
    /\ UNCHANGED notTier2

\* refine_clip lines 187-214 with extract_video_window: ffmpeg is run for
\* the window and either succeeds or exits non-zero.
ExtractVideoWindow ==
    /\ rpc = "extract"
    /\ LET start_time == WindowStartTime(CenterTime(approx_start, approx_end),
                                         window_padding)
           duration == WindowDuration(window_padding)
       IN  /\ ffmpeg_cmd' = [run |-> TRUE, ss |-> start_time, t |-> duration]
           /\ \/ /\ extraction_result' =
                       [success |-> TRUE, extracted_clip |-> "window.mp4",
                        window_start |-> start_time,
                        window_end |-> start_time + duration,
                        duration |-> duration, fps |-> 10]
                 /\ rpc' = "analyze"
                 /\ UNCHANGED <<t2result, t2exit>>
              \/ /\ Tier2Raise("ffmpeg extraction failed")
                 /\ UNCHANGED extraction_result
    /\ UNCHANGED <<source_exists, api_key, approx_start, approx_end, window_padding,
                   t2response>>
    /\ UNCHANGED notTier2

\* refine_clip lines 227-322 for the outcome r of analyze_video_structured:
\* the result dict is built by the try block or by its except branch
RefineWith(r) ==
    /\ t2response' = r
    /\ IF ProcessingError(r) = ""
       THEN t2result' = SuccessResult(r) /\ rpc' = "report" /\ UNCHANGED t2exit
       ELSE IF AnalysisFailureCaught(ProcessingError(r))
       THEN t2result' = FailureResult(ProcessingError(r))
            /\ rpc' = "report" /\ UNCHANGED t2exit
       ELSE Tier2Raise(ProcessingError(r))

\* refine_clip lines 216-322: the client is created, the window is analyzed
\* and the result dict is built, by the try block or by its except branch.
RefineClip ==
    /\ rpc = "analyze"
    /\ IF ~api_key
       THEN Tier2Raise("ValueError") /\ UNCHANGED t2response
       ELSE \E r \in T2Responses : RefineWith(r)
    /\ UNCHANGED <<source_exists, api_key, approx_start, approx_end, window_padding,
                   ffmpeg_cmd, extraction_result>>
    /\ UNCHANGED notTier2

\* What analyze_video_structured makes of a text that analyze_video
\* returned: text that is not JSON, or an object with all its keys.
ParsedResponses ==
    {r \in T2Responses :
        \/ r.kind = "raise" /\ r.error = "Malformed"
        \/ /\ r.kind = "dict" /\ r.has_timestamp /\ r.has_validation
           /\ r.validation.has_confidence /\ r.validation.confidence \in {69, 95}
           /\ r.validation.checks = [c \in T2Checks |-> "true"]
           /\ r.timestamp.start_seconds = 104}

\* refine_clip lines 219-231, when the client is followed attempt by
\* attempt: the client is created and analyze_video_structured calls
\* analyze_video with the window clip, a local file that exists, and the
\* default model
RefineCall ==
    /\ rpc = "analyze"
    /\ api_key
    /\ pc = "idle"
    /\ rpc' = "in_call"
    /\ pc' = "analyze_video"
    /\ model' = <<"qwen3", "-vl", "-235b-a22b-thinking">>
    /\ video_path' = <<"/abs/v.mp4">>
    /\ file_exists' = TRUE
    /\ UNCHANGED <<openai_installed, openai_client, attempt, last_error, script,
                   request_url, events, response, result>>
    /\ UNCHANGED <<source_exists, api_key, approx_start, approx_end, window_padding,
                   ffmpeg_cmd, extraction_result, t2response, t2result, t2exit>>
    /\ UNCHANGED <<structVars, scoreVars, tier1Vars, tier3Vars, workspaceVars, threads>>

\* analyze_video is over: its exception, or the parse of its text, is the
\* outcome of analyze_video_structured, and refine_clip builds the result
RefineCallOver ==
    /\ rpc = "in_call"
    /\ pc = "done"
    /\ IF result.kind = "return"
       THEN \E r \in ParsedResponses : RefineWith(r)
       ELSE RefineWith([NoT2Response EXCEPT !.kind = "raise", !.error = result.kind])
    /\ UNCHANGED <<source_exists, api_key, approx_start, approx_end, window_padding,
                   ffmpeg_cmd, extraction_result>>
    /\ UNCHANGED notTier2

\* SIGINT while the retry loop is in an attempt or in a backoff sleep:
\* KeyboardInterrupt is not an Exception, so neither the loop's handler
\* (line 137) nor refine_clip's (line 302) nor main's (line 367) takes it,
\* and the interpreter ends the process.
RefineInterrupt ==
    /\ rpc = "in_call"
    /\ pc \in {"dashscope_loop", "dashscope_sleep"}
    /\ pc' = "done"
    /\ result' = [NoResult EXCEPT !.kind = "KeyboardInterrupt"]
    /\ t2result' = [NoT2Result EXCEPT !.kind = "killed", !.error = "KeyboardInterrupt"]
    /\ t2exit' = 130
    /\ rpc' = "done"
    /\ UNCHANGED <<model, video_path, file_exists, openai_installed, openai_client,
                   attempt, last_error, script, request_url, events, response>>
    /\ UNCHANGED <<source_exists, api_key, approx_start, approx_end, window_padding,
                   ffmpeg_cmd, extraction_result, t2response>>
    /\ UNCHANGED <<structVars, scoreVars, tier1Vars, tier3Vars, workspaceVars, threads>>

\* main lines 358-365: the result is printed; exit status 0 or 2
Tier2Report ==
    /\ rpc = "report"
    /\ t2exit' = IF t2result.has_refined /\ t2result.confidence >= 70 THEN 0 ELSE 2
    /\ rpc' = "done"
    /\ UNCHANGED <<source_exists, api_key, approx_start, approx_end, window_padding,
                   ffmpeg_cmd, extraction_result, t2response, t2result>>
    /\ UNCHANGED notTier2

----------------------------------------------------------------------------
(* human_refine_broll: get_human_feedback, apply_human_corrections,        *)
(* interactive_refinement and main                                         *)
(*                                                                         *)
(* The terminal's input is a sequence of lines, each a sequence of         *)
(* characters or words; SIGINT stands for an interrupt delivered while     *)
(* input() waits, and the end of the sequence for end of file.             *)

SIGINT == <<"<interrupt>">>

\* the lines a human can type
Lines == {<<"y">>, <<"n">>, <<"s">>, <<"e">>, <<"b">>, <<"o">>, <<"g">>,
          <<" ", "N">>, <<"G", " ">>, <<>>, <<"wrong clip">>, SIGINT}

\* number of lines of a session that are chosen freely from Lines
MaxAnswers == 2

\* what can follow the freely chosen lines: nothing; a start, an end and an
\* empty feedback line; a line that is not a number and an empty feedback
\* line; an interrupt after one more line
Continuations == {<<>>,
                  << <<"3", ".", "0">>, <<"9", ".", "0">>, <<>> >>,
                  << <<"abc">>, <<>> >>,
                  << <<"3", ".", "0">>, SIGINT >>}

Sessions ==
    {pre \o post : pre \in UNION {[1..n -> Lines] : n \in 0..MaxAnswers},
                   post \in Continuations}

NoTimestamp == [start |-> 0, end |-> 0, duration |-> 0]
NoHumanResponse == [action |-> "none", reason |-> <<>>, has_corrected |-> FALSE,
                    corrected_timestamp |-> [start_seconds |-> 0, end_seconds |-> 0],
                    issue_type |-> <<>>, feedback |-> <<>>]
NoT3Result == [kind |-> "none", error |-> "", final_status |-> "",
               has_reason |-> FALSE, reason |-> <<>>,
               has_corrected |-> FALSE, corrected_timestamp |-> NoTimestamp,
               has_usable |-> FALSE, usable_by_orchestrator |-> FALSE,
               window_start |-> 0, model_suggestion |-> [start |-> 0, end |-> 0]]

\* an answer taken as typed
NormalizeAnswer_AsTyped(line) == line

\* input(...).lower().strip(), lines 81 and 106
NormalizeAnswer(line) == Strip(Lower(line))

\* an issue type that is never the acceptance
IsAccept_Never(issue_type) == FALSE

\* line 108: issue_type == 'g'
IsAccept(issue_type) == issue_type = <<"g">>

\* corrections returned as the human typed them, relative to the window
ApplyHumanCorrections_Relative(w, hr) ==
    IF hr.action \in {"reject", "skip"}
    THEN [NoT3Result EXCEPT !.kind = "return", !.final_status = hr.action,
             !.has_reason = TRUE, !.reason = hr.reason,
             !.has_usable = TRUE, !.usable_by_orchestrator = FALSE]
    ELSE IF hr.action = "accept"
    THEN [NoT3Result EXCEPT !.kind = "return", !.final_status = "accepted_as_is",
             !.has_reason = TRUE, !.reason = hr.reason,
             !.has_usable = TRUE, !.usable_by_orchestrator = TRUE]
    ELSE [NoT3Result EXCEPT !.kind = "return",
             !.final_status = "refined_by_human",
             !.has_corrected = TRUE,
             !.corrected_timestamp =
                 [start |-> hr.corrected_timestamp.start_seconds,
                  end |-> hr.corrected_timestamp.end_seconds,
                  duration |-> hr.corrected_timestamp.end_seconds
                               - hr.corrected_timestamp.start_seconds],
             !.has_usable = TRUE, !.usable_by_orchestrator = TRUE]

\* apply_human_corrections, lines 168-202
ApplyHumanCorrections(w, hr) ==
    IF hr.action \in {"reject", "skip"}
    THEN [NoT3Result EXCEPT !.kind = "return", !.final_status = hr.action,
             !.has_reason = TRUE, !.reason = hr.reason,
             !.has_usable = TRUE, !.usable_by_orchestrator = FALSE]
    ELSE IF hr.action = "accept"
    THEN [NoT3Result EXCEPT !.kind = "return", !.final_status = "accepted_as_is",
             !.has_reason = TRUE, !.reason = hr.reason,
             !.has_usable = TRUE, !.usable_by_orchestrator = TRUE]
    ELSE LET absolute_start == w + hr.corrected_timestamp.start_seconds
             absolute_end == w + hr.corrected_timestamp.end_seconds
         IN  [NoT3Result EXCEPT !.kind = "return",
                 !.final_status = "refined_by_human",
                 !.has_corrected = TRUE,
                 !.corrected_timestamp =
                     [start |-> absolute_start, end |-> absolute_end,
                      duration |-> absolute_end - absolute_start],
                 !.has_usable = TRUE, !.usable_by_orchestrator = TRUE]

\* a main that exits with status 0 whenever a record was printed
Tier3Return_ExitZero(hr) ==
    LET r == ApplyHumanCorrections(h_window_start, hr)
    IN  /\ human_response' = hr
        /\ t3result' = [r EXCEPT !.window_start = h_window_start,
                          !.model_suggestion =
                              [start |-> h_window_start + h_model_start,
                               end |-> h_window_start + h_model_end]]
        /\ t3exit' = 0
        /\ hpc' = "done"

\* interactive_refinement lines 232-245 and main lines 278-285: the
\* corrections are applied, the metadata is added, the record is printed
\* and the exit status is 0 for a usable record, 2 otherwise
Tier3Return(hr) ==
    LET r == ApplyHumanCorrections(h_window_start, hr)
    IN  /\ human_response' = hr
        /\ t3result' = [r EXCEPT !.window_start = h_window_start,
                          !.model_suggestion =
                              [start |-> h_window_start + h_model_start,
                               end |-> h_window_start + h_model_end]]
        /\ t3exit' = IF r.usable_by_orchestrator THEN 0 ELSE 2
        /\ hpc' = "done"

\* main lines 296-304: any other exception
Tier3Raise(err) ==
    /\ t3result' = [NoT3Result EXCEPT !.kind = "raise", !.error = err]
    /\ t3exit' = 1
    /\ hpc' = "done"
    /\ UNCHANGED human_response

\* an interrupt that only `except Exception` is there to handle
Tier3Cancelled_Uncaught ==
    /\ t3result' = [NoT3Result EXCEPT !.kind = "killed", !.error = "KeyboardInterrupt"]
    /\ t3exit' = 130
    /\ hpc' = "done"
    /\ UNCHANGED human_response

\* main lines 287-294: KeyboardInterrupt
Tier3Cancelled ==
    /\ t3result' = [NoT3Result EXCEPT !.kind = "cancelled",
                       !.final_status = "cancelled",
                       !.error = "User cancelled refinement"]
    /\ t3exit' = 130
    /\ hpc' = "done"
    /\ UNCHANGED human_response

\* One input() call: the prompt is shown; at end of file it raises
\* EOFError, on an interrupt KeyboardInterrupt, otherwise it returns the line.
Input(prompt) ==
    /\ prompts' = Append(prompts, prompt)
    /\ IF stdin = <<>> THEN UNCHANGED <<stdin, answers>>
       ELSE stdin' = Tail(stdin) /\ answers' = Append(answers, Head(stdin))

InputFailed ==
    IF stdin = <<>> THEN Tier3Raise("EOFError")
    ELSE IF Head(stdin) = SIGINT THEN Tier3Cancelled
    ELSE FALSE

GotLine == stdin # <<>> /\ Head(stdin) # SIGINT

\* main lines 256-266
Tier3Main ==
    /\ hpc = "main"
    /\ IF clip_exists THEN hpc' = "usable" /\ UNCHANGED t3exit
       ELSE hpc' = "done" /\ t3exit' = 1
    /\ UNCHANGED <<clip_exists, h_window_start, h_model_start, h_model_end, stdin,
                   answers, prompts, human_response, t3result>>
    /\ UNCHANGED notTier3

\* question 1 asked again until the answer is one of y, n, s
AfterUsable_AskAgain(usable) ==
    IF usable = <<"n">> THEN "reason"
    ELSE IF usable = <<"y">> THEN "issue_type"
    ELSE "usable"

\* lines 83 and 98: where an answer to question 1 other than 's' leads
AfterUsable(usable) == IF usable = <<"n">> THEN "reason" ELSE "issue_type"

\* get_human_feedback lines 73-96: question 1
AskUsable ==
    /\ hpc = "usable"
    /\ Input("usable")
    /\ \/ InputFailed
       \/ /\ GotLine
          /\ LET usable == NormalizeAnswer(Head(stdin))
             IN  IF usable = <<"s">>
                 THEN Tier3Return([NoHumanResponse EXCEPT !.action = "skip",
                                      !.reason = <<"User chose to skip">>])
                 ELSE hpc' = AfterUsable(usable)
                      /\ UNCHANGED <<human_response, t3result, t3exit>>
    /\ UNCHANGED <<clip_exists, h_window_start, h_model_start, h_model_end>>
    /\ UNCHANGED notTier3

\* get_human_feedback lines 84-89: the reason of a rejection
AskReason ==
    /\ hpc = "reason"
    /\ Input("reason")
    /\ \/ InputFailed
       \/ /\ GotLine
          /\ Tier3Return([NoHumanResponse EXCEPT !.action = "reject",
                             !.reason = Head(stdin)])
    /\ UNCHANGED <<clip_exists, h_window_start, h_model_start, h_model_end>>
    /\ UNCHANGED notTier3

\* get_human_feedback lines 98-118: question 2. An answer other than 'g'
\* goes on to question 3, whose text at line 118 reads the names model_start
\* and model_end, which get_human_feedback neither receives nor defines:
\* NameError, after the two heading lines 116-117 were printed.
AskIssueType ==
    /\ hpc = "issue_type"
    /\ \/ Input("issue_type") /\ InputFailed
       \/ /\ GotLine
          /\ stdin' = Tail(stdin)
          /\ answers' = Append(answers, Head(stdin))
          /\ IF IsAccept(NormalizeAnswer(Head(stdin)))
             THEN /\ prompts' = Append(prompts, "issue_type")
                  /\ Tier3Return([NoHumanResponse EXCEPT !.action = "accept",
                                     !.reason = <<"Human approved model's timestamps">>])
             ELSE /\ prompts' = prompts \o <<"issue_type", "timestamps">>
                  /\ Tier3Raise("NameError")
    /\ UNCHANGED <<clip_exists, h_window_start, h_model_start, h_model_end>>
    /\ UNCHANGED notTier3

\* The responses of action "refine" that a caller can hand to
\* apply_human_corrections: window-relative pairs 3.0/9.0, 5.2/10.7, 0.0/3.0
RefineResponses ==
    {[NoHumanResponse EXCEPT !.action = "refine", !.has_corrected = TRUE,
         !.corrected_timestamp = ts, !.issue_type = it, !.feedback = fb] :
        ts \in ModelTimestamps \cup {[start_seconds |-> 0, end_seconds |-> 60]},
        it \in {<<"s">>, <<"e">>, <<"b">>, <<"o">>},
        fb \in {<<>>, <<"starts late">>}}

\* apply_human_corrections called on its own with a "refine" response,
\* lines 185-202; no main, so no exit status
ApplyCorrections ==
    /\ hpc = "apply"
    /\ t3result' = ApplyHumanCorrections(h_window_start, human_response)
    /\ hpc' = "done"
    /\ UNCHANGED <<clip_exists, h_window_start, h_model_start, h_model_end, stdin,
                   answers, prompts, human_response, t3exit>>
    /\ UNCHANGED notTier3

----------------------------------------------------------------------------
(* refine_clip invocations that run side by side                           *)
(*                                                                         *)
(* Each invocation is one refine_broll_clip process or thread; they share  *)
(* the system clock and the default workspace directory.                   *)

\* the refinements, each of a different clip
Jobs == {1, 2}

\* last second of the clock
MaxClock == 2

\* the estimate of the clip refinement j works on
JobEstimate(j) ==
    IF j = 1 THEN [start |-> Sec(3), end |-> Sec(7)]
    ELSE [start |-> Sec(83), end |-> Sec(88)]

\* lines 203-205: refine_<%Y%m%d_%H%M%S>_window.mp4 in the workspace
\* directory, the time taken to the whole second
WindowOutput(now) == <<"workspace/broll-refinement/refine_", now, "_window.mp4">>

WindowPaths == {WindowOutput(t) : t \in 0..MaxClock}

NoFile == [owner |-> 0, window_start |-> 0]
NoJob == [pc |-> "start", window_output |-> <<>>, window_start |-> 0,
          analyzed |-> NoFile, refined_start |-> 0]

\* a second passes
Tick ==
    /\ clock < MaxClock
    /\ clock' = clock + 1
    /\ UNCHANGED <<files, jobs>>
    /\ UNCHANGED notWorkspace

\* refine_clip lines 199-205: the name of the window clip
JobWindowOutput(j) ==
    /\ jobs[j].pc = "start"
    /\ jobs' = [jobs EXCEPT ![j].pc = "extract",
                            ![j].window_output = WindowOutput(clock)]
    /\ UNCHANGED <<clock, files>>
    /\ UNCHANGED notWorkspace

\* refine_clip lines 209-214: ffmpeg -y writes the window of this job's clip
\* to window_output, replacing a file of that name
JobExtract(j) ==
    /\ jobs[j].pc = "extract"
    /\ LET est == JobEstimate(j)
           start_time == WindowStartTime(CenterTime(est.start, est.end), 20)
       IN  /\ files' = [files EXCEPT ![jobs[j].window_output] =
                           [owner |-> j, window_start |-> start_time]]
           /\ jobs' = [jobs EXCEPT ![j].pc = "analyze",
                                   ![j].window_start = start_time]
    /\ UNCHANGED clock
    /\ UNCHANGED notWorkspace

\* refine_clip lines 228-237: the file named window_output is analyzed, and
\* the window start of this job is added to the model's timestamp
JobAnalyze(j) ==
    /\ jobs[j].pc = "analyze"
    /\ \E ts \in ModelTimestamps :
          jobs' = [jobs EXCEPT ![j].pc = "done",
                      ![j].analyzed = files[jobs[j].window_output],
                      ![j].refined_start =
                          ToAbsolute(jobs[j].window_start, ts.start_seconds)]
    /\ UNCHANGED <<clock, files>>
    /\ UNCHANGED notWorkspace

----------------------------------------------------------------------------
(* Calls that run concurrently on one QwenClient                           *)
(*                                                                         *)
(* attempt, last_error and the response are locals of _make_request_*;     *)
(* self.openai_client is the one attribute the calls write.                *)

\* the concurrent calls
Callers == {1, 2}

\* the transport of call i fails its first k requests; the failure of
\* request n of call i is numbered 10 * i + n
ThreadScript(i, k) ==
    [on |-> TRUE, fails |-> [n \in 1..k |-> [kind |-> "exc", id |-> 10 * i + n]]]

NoThread == [p |-> "dashscope", pc |-> "idle", attempt |-> 0, last_error |-> NoError,
             script |-> NoScript, events |-> <<>>, result |-> NoResult]

\* the loop variable another call is using
AttemptOf_Shared(t, i) == t[1].attempt

\* lines 124 and 180: attempt is a local of the call
AttemptOf(t, i) == t[i].attempt

ThreadRequests(t) == SelectEvents(t.events, "req")
ThreadSleeps(t) == SelectEvents(t.events, "sleep")

\* One step of call i leaves the other calls' locals as they are.
SetThread(i, t) == threads' = [threads EXCEPT ![i] = t]

\* _init_openai_client line 83: `if self.openai_client is None`
ThreadInitCheck(i) ==
    /\ threads[i].pc = "init_openai_client"
    /\ SetThread(i, [threads[i] EXCEPT !.pc =
                        IF openai_client = "None" THEN "create" ELSE "loop"])
    /\ UNCHANGED openai_client
    /\ UNCHANGED <<clientLocals, notThreads>>

\* _init_openai_client lines 85-90: the client is created and assigned
ThreadInitCreate(i) ==
    /\ threads[i].pc = "create"
    /\ openai_client' = "OpenAI"
    /\ SetThread(i, [threads[i] EXCEPT !.pc = "loop"])
    /\ UNCHANGED <<clientLocals, notThreads>>

\* one iteration of the retry loop of call i up to its sleep
ThreadAttempt(i) ==
    /\ threads[i].pc = "loop"
    /\ InLoop(AttemptOf(threads, i))
    /\ LET t == threads[i]
           a == AttemptOf(threads, i)
           ans == TransportAnswer(t.script, Len(ThreadRequests(t)) + 1)
           sent == Append(t.events, [e |-> "req", p |-> t.p, d |-> 0])
       IN  IF ans.kind = "ok"
           THEN SetThread(i, [t EXCEPT !.events = sent, !.pc = "done",
                                 !.result = [NoResult EXCEPT !.kind = "return"]])
           ELSE IF ShouldRetry(a)
           THEN SetThread(i, [t EXCEPT !.events = sent, !.pc = "sleep",
                                 !.last_error = KeepError(t.last_error, ans)])
           ELSE SetThread(i, [t EXCEPT !.events = sent, !.attempt = a + 1,
                                 !.last_error = KeepError(t.last_error, ans)])
    /\ UNCHANGED openai_client
    /\ UNCHANGED <<clientLocals, notThreads>>

\* time.sleep(delay) of call i, then its next iteration
ThreadBackoff(i) ==
    /\ threads[i].pc = "sleep"
    /\ LET t == threads[i]
           a == AttemptOf(threads, i)
       IN  SetThread(i, [t EXCEPT !.pc = "loop", !.attempt = a + 1,
                            !.events = Append(t.events,
                                [e |-> "sleep", p |-> t.p, d |-> BackoffDelay(a)])])
    /\ UNCHANGED openai_client
    /\ UNCHANGED <<clientLocals, notThreads>>

\* the raise after the loop of call i
ThreadExhausted(i) ==
    /\ threads[i].pc = "loop"
    /\ ~InLoop(AttemptOf(threads, i))
    /\ SetThread(i, [threads[i] EXCEPT !.pc = "done",
                        !.result = [NoResult EXCEPT !.kind = "Fatal",
                                       !.cause = threads[i].last_error]])
    /\ UNCHANGED openai_client
    /\ UNCHANGED <<clientLocals, notThreads>>

----------------------------------------------------------------------------
(* Specifications *)

ClientIdle ==
    /\ model = <<"qwen3", "-vl", "-235b-a22b-thinking">>
    /\ video_path = <<"/abs/v.mp4">>
    /\ file_exists = TRUE
    /\ openai_installed = TRUE
    /\ openai_client = "None"
    /\ pc = "idle"
    /\ attempt = 0
    /\ last_error = NoError
    /\ script = NoScript
    /\ request_url = <<>>
    /\ events = <<>>
    /\ response = NoResponse
    /\ result = NoResult

StructIdle ==
    /\ raw_text = <<>>
    /\ response_text = <<>>
    /\ spc = "idle"
    /\ sresult = NoSResult

ScoreIdle ==
    /\ clip = NoClip
    /\ keywords = <<>>
    /\ score = 0
    /\ kpc = "idle"

Tier1Idle ==
    /\ dir_exists = TRUE
    /\ video_files = <<>>
    /\ script_keywords = <<>>
    /\ calls = <<>>
    /\ returned = <<>>
    /\ all_clips = <<>>
    /\ tpc = "idle"
    /\ output = NoOutput

Tier2Idle ==
    /\ source_exists = TRUE
    /\ api_key = TRUE
    /\ approx_start = 0
    /\ approx_end = 0
    /\ window_padding = 20
    /\ ffmpeg_cmd = NoCmd
    /\ extraction_result = NoExtraction
    /\ t2response = NoT2Response
    /\ t2result = NoT2Result
    /\ t2exit = -1
    /\ rpc = "idle"

Tier3Idle ==
    /\ clip_exists = TRUE
    /\ h_window_start = 0
    /\ h_model_start = 0
    /\ h_model_end = 0
    /\ stdin = <<>>
    /\ answers = <<>>
    /\ prompts = <<>>
    /\ human_response = NoHumanResponse
    /\ t3result = NoT3Result
    /\ t3exit = -1
    /\ hpc = "idle"

WorkspaceIdle ==
    /\ clock = 0
    /\ files = [p \in WindowPaths |-> NoFile]
    /\ jobs = [j \in Jobs |-> [NoJob EXCEPT !.pc = "idle"]]

ThreadsIdle == threads = <<>>

\* The client: logical calls of analyze_video, one after another.
Init ==
    /\ model \in Models
    /\ video_path \in MediaRefs
    /\ file_exists \in BOOLEAN
    /\ IsLocalPath(video_path) \/ ~file_exists
    /\ openai_installed \in BOOLEAN
    /\ openai_client = "None"
    /\ pc = "analyze_video"
    /\ attempt = 0
    /\ last_error = NoError
    /\ script = NoScript
    /\ request_url = <<>>
    /\ events = <<>>
    /\ response = NoResponse
    /\ result = NoResult
    /\ StructIdle
    /\ ScoreIdle
    /\ Tier1Idle
    /\ Tier2Idle
    /\ Tier3Idle
    /\ WorkspaceIdle
    /\ ThreadsIdle

Next ==
    \/ AnalyzeVideo
    \/ AnalyzeWithDashscope
    \/ AnalyzeWithOpenai
    \/ InitOpenaiClient
    \/ DashscopeAttempt
    \/ DashscopeBackoff
    \/ DashscopeExhausted
    \/ DashscopeExtract
    \/ OpenaiAttempt
    \/ OpenaiBackoff
    \/ OpenaiExhausted
    \/ OpenaiReturn
    \/ NewCall

Spec == Init /\ [][Next]_vars

\* analyze_video_structured on every text the model can answer with.
InitStructured ==
    /\ ClientIdle
    /\ raw_text = <<>>
    /\ response_text = <<>>
    /\ spc = "analyze_video"
    /\ sresult = NoSResult
    /\ ScoreIdle
    /\ Tier1Idle
    /\ Tier2Idle
    /\ Tier3Idle
    /\ WorkspaceIdle
    /\ ThreadsIdle

NextStructured ==
    \/ StructuredCall
    \/ StructuredParse

SpecStructured == InitStructured /\ [][NextStructured]_vars

\* analyze_video_structured with the retry loop of its analyze_video call
\* followed step by step.
InitStructuredRetry == InitStructured

NextStructuredRetry ==
    \/ StructuredStart
    \/ AnalyzeVideo
    \/ AnalyzeWithDashscope
    \/ DashscopeAttempt
    \/ DashscopeBackoff
    \/ DashscopeExhausted
    \/ DashscopeExtract
    \/ StructuredReceive
    \/ StructuredParse

SpecStructuredRetry == InitStructuredRetry /\ [][NextStructuredRetry]_vars

\* calculate_relevance_score on every clip dict and keyword list.
InitScore ==
    /\ ClientIdle
    /\ StructIdle
    /\ clip \in ClipDicts
    /\ keywords \in KeywordLists
    /\ score = 0
    /\ kpc = "call"
    /\ Tier1Idle
    /\ Tier2Idle
    /\ Tier3Idle
    /\ WorkspaceIdle
    /\ ThreadsIdle

NextScore ==
    \/ CalculateRelevanceScore

SpecScore == InitScore /\ [][NextScore]_vars

\* One identification run over the videos of a source directory.
InitTier1 ==
    /\ ClientIdle
    /\ StructIdle
    /\ ScoreIdle
    /\ dir_exists \in BOOLEAN
    /\ video_files \in {[i \in 1..n |-> i] : n \in 0..MaxVideos}
    /\ script_keywords \in { << <<"a", "i">>, <<"tools">> >>, << <<"I">> >> }
    /\ calls = <<>>
    /\ returned = <<>>
    /\ all_clips = <<>>
    /\ tpc = "start"
    /\ output = NoOutput
    /\ Tier2Idle
    /\ Tier3Idle
    /\ WorkspaceIdle
    /\ ThreadsIdle

NextTier1 ==
    \/ FindVideos
    \/ IdentifyBrollClips
    \/ Tier1Finish

SpecTier1 == InitTier1 /\ [][NextTier1]_vars

\* One run of refine_broll_clip.py.
InitTier2 ==
    /\ ClientIdle
    /\ StructIdle
    /\ ScoreIdle
    /\ Tier1Idle
    /\ source_exists \in BOOLEAN
    /\ api_key \in BOOLEAN
    /\ approx_start \in ApproxStarts
    /\ approx_end \in ApproxEnds
    /\ window_padding \in Paddings
    /\ ffmpeg_cmd = NoCmd
    /\ extraction_result = NoExtraction
    /\ t2response = NoT2Response
    /\ t2result = NoT2Result
    /\ t2exit = -1
    /\ rpc = "main"
    /\ Tier3Idle
    /\ WorkspaceIdle
    /\ ThreadsIdle

NextTier2 ==
    \/ Tier2Main
    \/ ExtractVideoWindow
    \/ RefineClip
    \/ Tier2Report

SpecTier2 == InitTier2 /\ [][NextTier2]_vars

\* One run of human_refine_broll.py on every session of input lines.
InitTier3 ==
    /\ ClientIdle
    /\ StructIdle
    /\ ScoreIdle
    /\ Tier1Idle
    /\ Tier2Idle
    /\ clip_exists \in BOOLEAN
    /\ h_window_start \in {0, Sec(63)}
    /\ h_model_start = 104
    /\ h_model_end = 214
    /\ stdin \in Sessions
    /\ answers = <<>>
    /\ prompts = <<>>
    /\ human_response = NoHumanResponse
    /\ t3result = NoT3Result
    /\ t3exit = -1
    /\ hpc = "main"
    /\ WorkspaceIdle
    /\ ThreadsIdle

NextTier3 ==
    \/ Tier3Main
    \/ AskUsable
    \/ AskReason
    \/ AskIssueType

SpecTier3 == InitTier3 /\ [][NextTier3]_vars

\* The same runs when the process is scheduled until it exits: each step of
\* the session is taken as soon as its input line, interrupt or end of file
\* is there, and the whole input is there from the start.
SpecTier3Fair == InitTier3 /\ [][NextTier3]_vars /\ WF_vars(NextTier3)

\* Two refinements of different clips in one workspace directory.
InitWorkspace ==
    /\ ClientIdle
    /\ StructIdle
    /\ ScoreIdle
    /\ Tier1Idle
    /\ Tier2Idle
    /\ Tier3Idle
    /\ ThreadsIdle
    /\ clock = 0
    /\ files = [p \in WindowPaths |-> NoFile]
    /\ jobs = [j \in Jobs |-> NoJob]

NextWorkspace ==
    \/ Tick
    \/ \E j \in Jobs : JobWindowOutput(j)
    \/ \E j \in Jobs : JobExtract(j)
    \/ \E j \in Jobs : JobAnalyze(j)

SpecWorkspace == InitWorkspace /\ [][NextWorkspace]_vars

\* Two calls on one client, each against a transport that fails its first
\* requests, in every interleaving of their steps.
InitThreads ==
    /\ ClientIdle
    /\ StructIdle
    /\ ScoreIdle
    /\ Tier1Idle
    /\ Tier2Idle
    /\ Tier3Idle
    /\ WorkspaceIdle
    /\ threads \in
          {[i \in Callers |->
               [NoThread EXCEPT !.p = ps[i],
                   !.pc = IF ps[i] = "openai" THEN "init_openai_client" ELSE "loop",
                   !.script = ThreadScript(i, ks[i])]] :
             ps \in [Callers -> {"dashscope", "openai"}],
             ks \in [Callers -> 0..MAX_RETRIES]}

NextThreads ==
    \/ \E i \in Callers : ThreadInitCheck(i)
    \/ \E i \in Callers : ThreadInitCreate(i)
    \/ \E i \in Callers : ThreadAttempt(i)
    \/ \E i \in Callers : ThreadBackoff(i)
    \/ \E i \in Callers : ThreadExhausted(i)

SpecThreads == InitThreads /\ [][NextThreads]_vars

\* One refinement with the client's retry loop followed step by step, and an
\* interrupt that can arrive while the loop runs.
InitRefineCall ==
    /\ ClientIdle
    /\ StructIdle
    /\ ScoreIdle
    /\ Tier1Idle
    /\ Tier3Idle
    /\ WorkspaceIdle
    /\ ThreadsIdle
    /\ source_exists = TRUE
    /\ api_key = TRUE
    /\ approx_start \in {Sec(3), Sec(83)}
    /\ approx_end = Sec(88)
    /\ window_padding = 20
    /\ ffmpeg_cmd = NoCmd
    /\ extraction_result = NoExtraction
    /\ t2response = NoT2Response
    /\ t2result = NoT2Result
    /\ t2exit = -1
    /\ rpc = "main"

NextRefineCall ==
    \/ Tier2Main
    \/ ExtractVideoWindow
    \/ RefineCall
    \/ AnalyzeVideo
    \/ AnalyzeWithDashscope
    \/ DashscopeAttempt
    \/ DashscopeBackoff
    \/ DashscopeExhausted
    \/ DashscopeExtract
    \/ RefineInterrupt
    \/ RefineCallOver
    \/ Tier2Report

SpecRefineCall == InitRefineCall /\ [][NextRefineCall]_vars

\* apply_human_corrections on its own
InitApply ==
    /\ ClientIdle
    /\ StructIdle
    /\ ScoreIdle
    /\ Tier1Idle
    /\ Tier2Idle
    /\ clip_exists = TRUE
    /\ h_window_start \in {0, Sec(63)}
    /\ h_model_start = 104
    /\ h_model_end = 214
    /\ stdin = <<>>
    /\ answers = <<>>
    /\ prompts = <<>>
    /\ human_response \in RefineResponses
    /\ t3result = NoT3Result
    /\ t3exit = -1
    /\ hpc = "apply"
    /\ WorkspaceIdle
    /\ ThreadsIdle

\* Every way a record with timestamps is produced: one run of
\* refine_broll_clip.py, one run of human_refine_broll.py, or one call of
\* apply_human_corrections.
InitRecords == InitTier2 \/ InitTier3 \/ InitApply

NextRecords ==
    \/ Tier2Main
    \/ ExtractVideoWindow
    \/ RefineClip
    \/ Tier2Report
    \/ Tier3Main
    \/ AskUsable
    \/ AskReason
    \/ AskIssueType
    \/ ApplyCorrections

SpecRecords == InitRecords /\ [][NextRecords]_vars

----------------------------------------------------------------------------
(* Properties of the client's retry loops and dispatch (specification Spec) *)

RECURSIVE SumSeq(_)
SumSeq(q) == IF q = <<>> THEN 0 ELSE Head(q) + SumSeq(Tail(q))

\* the transport fails every request the loop makes
AlwaysFails == script.on /\ Len(script.fails) = 5

\* C1: on either protocol, when every transport attempt of a call fails, the
\* client makes exactly 5 attempts and then raises the exhaustion error; it
\* never returns a response, and no call ever makes a 6th attempt.
C1_Exhaustion ==
    /\ Len(Requests) <= 5
    /\ AlwaysFails =>
          /\ result.kind # "return"
          /\ response = NoResponse
          /\ pc = "done" => (Len(Requests) = 5 /\ result.kind = "Fatal")

C1_Witness ==
    /\ pc = "done"
    /\ AlwaysFails
    /\ result.kind = "Fatal"
    /\ Len(Requests) = 5
    /\ Requests[5].p = "openai"

C3_UniformRetry ==
    /\ \A i \in 1..Len(Requests) :
          i < Len(Requests) => TransportAnswer(script, i).kind # "ok"
    /\ (pc = "done" /\ script.on) =>
          /\ Len(Requests) >= 1
          /\ \/ TransportAnswer(script, Len(Requests)).kind = "ok"
             \/ Len(Requests) = 5
          /\ Len(Sleeps) = Len(Requests) - 1
          /\ result.kind # "Exception"

C3_Witness ==
    /\ pc = "done"
    /\ script.on
    /\ Len(script.fails) = 3
    /\ script.fails[1].kind = "nochoices"
    /\ script.fails[2].kind = "exc"
    /\ script.fails[3].kind = "nochoices"
    /\ Len(Requests) = 4
    /\ result.kind = "return"

\* C4: the exhaustion error carries the error of the 5th failed attempt.
C4_LastErrorWrapped ==
    (pc = "done" /\ result.kind = "Fatal") =>
        /\ Len(script.fails) >= 5
        /\ result.cause = script.fails[5]

C4_Witness ==
    /\ pc = "done"
    /\ result.kind = "Fatal"
    /\ script.fails[1] # script.fails[5]
    /\ script.fails[4] # script.fails[5]
    /\ result.cause = script.fails[5]

\* C5: a call with a model of the omni family and a media reference that is
\* not an http/https URL fails with a descriptive error and makes no request
\* and no sleep.
C5_FailFast ==
    LET omni == Head(model) \in {"qwen3", "qwen"} /\ Len(model) >= 2 /\ model[2] = "-omni"
        http == Head(video_path) \in {"http://", "https://"}
    IN  (omni /\ ~http) =>
          /\ events = <<>>
          /\ ~script.on
          /\ pc = "done" => result.kind \in {"ValueError", "FileNotFoundError"}

C5_Witness ==
    /\ pc = "done"
    /\ model = <<"qwen3", "-omni", "-flash">>
    /\ video_path = <<"/abs/v.mp4">>
    /\ file_exists
    /\ result.kind = "ValueError"
    /\ events = <<>>

\* C6: the protocol is a function of the model identifier alone: identifiers
\* that start with qwen3-omni or qwen-omni use the OpenAI-compatible
\* protocol, all others the native one; every request of a call goes to that
\* protocol, whatever the media reference.
C6_ProtocolByModel ==
    LET omni == Head(model) \in {"qwen3", "qwen"} /\ Len(model) >= 2 /\ model[2] = "-omni"
        proto == IF omni THEN "openai" ELSE "dashscope"
    IN  /\ \A i \in 1..Len(events) : events[i].p = proto
        /\ pc \in {"analyze_with_openai", "init_openai_client", "openai_loop",
                   "openai_sleep", "openai_return"} => omni
        /\ pc \in {"analyze_with_dashscope", "dashscope_loop", "dashscope_sleep",
                   "dashscope_return"} => ~omni

C6_Witness ==
    /\ pc = "done"
    /\ model = <<"x-", "qwen3", "-omni">>
    /\ video_path = <<"https://", "cdn/v.mp4">>
    /\ Len(Requests) = 2
    /\ \A i \in 1..Len(events) : events[i].p = "dashscope"

----------------------------------------------------------------------------
(* Properties of analyze_video_structured (specification SpecStructured) *)

AllWhitespace(t) == \A i \in 1..Len(t) : t[i] \in Whitespace

\* `pre` is optional whitespace and then the opening layers `ops`
OpensWith(pre, ops) ==
    \E i \in 0..Len(pre) :
        AllWhitespace(SubSeq(pre, 1, i)) /\ SubSeq(pre, i + 1, Len(pre)) = ops
\* `post` is the closing layers `cls` and then optional whitespace
ClosesWith(post, cls) ==
    \E i \in 0..Len(post) :
        SubSeq(post, 1, i) = cls /\ AllWhitespace(SubSeq(post, i + 1, Len(post)))

\* C7: when the response text is not valid JSON, the malformed-response
\* error contains the raw text as the model returned it, code fence included
\* (whitespace around the text, which strip() removes first, aside).
C7_RawTextInError ==
    sresult.kind = "Malformed" => Contains(sresult.text, Strip(raw_text))

\* C8: for every valid JSON text J, the call returns the value of J when the
\* model answers J bare or J inside one fence layer (an opening fence line
\* with or without a language tag, and a closing fence line), with or
\* without surrounding whitespace; a second fence layer is not removed.
C8_FenceEquivalence ==
    spc = "done" /\ sresult.kind # "Fatal" =>
        \A i \in 1..Len(raw_text) : \A j \in i..Len(raw_text) :
            LET J == SubSeq(raw_text, i, j)
                pre == SubSeq(raw_text, 1, i - 1)
                post == SubSeq(raw_text, j + 1, Len(raw_text))
                same == sresult.kind = "return" /\ sresult.value = JsonLoads(J).value
            IN  JsonLoads(J).ok =>
                  /\ (AllWhitespace(pre) /\ AllWhitespace(post)) => same
                  /\ \A op \in FenceOpenings :
                        /\ (OpensWith(pre, op) /\ ClosesWith(post, FenceClosing)) => same
                        /\ \A op2 \in FenceOpenings :
                              ( /\ OpensWith(pre, op \o op2)
                                /\ ClosesWith(post, FenceClosing \o FenceClosing) )
                              => sresult.kind = "Malformed"

C8_Witness ==
    /\ spc = "done"
    /\ raw_text = <<" ", FENCE, "json", "\n", "[", "1", "]", "\n", FENCE, "\n">>
    /\ sresult.kind = "return"
    /\ sresult.value = <<"[", "1", "]">>

\* a doubly fenced valid JSON text is answered with the malformed error
C8_WitnessTwoLayers ==
    /\ spc = "done"
    /\ raw_text = <<FENCE, "\n", FENCE, "json", "\n", "1", "\n", FENCE, "\n", FENCE>>
    /\ sresult.kind = "Malformed"

----------------------------------------------------------------------------
(* Properties of Tier1 identification (specifications SpecTier1, SpecScore) *)

\* the run got as far as the loop over the videos
VideosFound == dir_exists /\ video_files # <<>>

\* C9: in a Tier1 run every video gets exactly one structured-analysis call
\* whatever the calls for earlier videos did; a video whose call fails
\* contributes no candidate, and every candidate of a video whose call
\* succeeds is in the output.
C9_PerVideoIsolation ==
    (tpc = "done" /\ VideosFound) =>
        /\ calls = video_files
        /\ \A i \in 1..Len(returned) :
              IF returned[i].kind = "raise"
              THEN \A k \in 1..Len(output.clips) : output.clips[k].source_video # calls[i]
              ELSE \A j \in 1..Len(returned[i].clips) :
                      \E k \in 1..Len(output.clips) : output.clips[k] = returned[i].clips[j]

\* C10: the score is 0.5 x min(1, tagMatched/n) + 0.3 x min(1, descMatched/n)
\* + 0.2 x qualityWeight rounded to 2 decimals, n the number of keywords,
\* tagMatched the keywords that are case-insensitive substrings of a tag,
\* descMatched those that are case-insensitive substrings of the description,
\* qualityWeight 1.0 / 0.6 / 0.3 for high / medium / low and 0.6 for a
\* missing or unknown label; keywords [ai, tools], tags [AI, Productivity],
\* description 'uses ai tools daily', quality high score 0.75.
C10_RelevanceFormula ==
    (kpc = "done" /\ Len(keywords) >= 1) =>
        LET n == Len(keywords)
            lower(t) == [i \in 1..Len(t) |->
                            IF t[i] = "A" THEN "a" ELSE IF t[i] = "I" THEN "i"
                            ELSE IF t[i] = "Productivity" THEN "productivity" ELSE t[i]]
            tagMatched == Cardinality({i \in 1..n : \E j \in 1..Len(clip.tags) :
                              Contains(lower(clip.tags[j]), lower(keywords[i]))})
            descMatched == Cardinality({i \in 1..n :
                              Contains(lower(clip.description), lower(keywords[i]))})
            weight == IF clip.has_quality /\ clip.visual_quality = "high" THEN 10
                      ELSE IF clip.has_quality /\ clip.visual_quality = "low" THEN 3
                      ELSE 6
            \* the exact value, times 1000 * n
            exact == 500 * Min(n, tagMatched) + 300 * Min(n, descMatched) + 20 * weight * n
            dist == exact - 10 * n * score
        IN  /\ 2 * dist <= 10 * n /\ 2 * dist >= -(10 * n)
            /\ ( /\ keywords = << <<"a", "i">>, <<"tools">> >>
                 /\ clip.tags = << <<"A", "I">>, <<"Productivity">> >>
                 /\ clip.description = <<"uses", " ", "a", "i", " ", "tools", " ", "daily">>
                 /\ clip.has_quality /\ clip.visual_quality = "high" )
               => score = 75

C10_Witness ==
    /\ kpc = "done"
    /\ keywords = << <<"a", "i">>, <<"tools">> >>
    /\ clip.tags = << <<"A", "I">>, <<"Productivity">> >>
    /\ clip.description = <<"uses", " ", "a", "i", " ", "tools", " ", "daily">>
    /\ clip.has_quality /\ clip.visual_quality = "high"
    /\ score = 75

----------------------------------------------------------------------------
(* Properties of the identification output (specification SpecTier1) *)

\* the candidates the videos' calls produced, in the order they were produced
RECURSIVE Produced(_)
Produced(rs) ==
    IF rs = <<>> THEN <<>> ELSE Head(rs).clips \o Produced(Tail(rs))

\* C11: in the output of an identification run every candidate's recommended
\* flag is true exactly when its relevance score is at least 0.70, and
\* high_quality_clips is the number of candidates whose flag is true.
C11_RecommendedThreshold ==
    output.kind = "result" =>
        /\ \A i \in 1..Len(output.clips) :
              output.clips[i].recommended <=> output.clips[i].relevance_score >= 70
        /\ output.high_quality_clips =
              Cardinality({i \in 1..Len(output.clips) : output.clips[i].recommended})

\* an output with a candidate at exactly 0.70, one below and one above
C11_Witness ==
    /\ output.kind = "result"
    /\ \E i, j, k \in 1..Len(output.clips) :
          /\ output.clips[i].relevance_score = 70 /\ output.clips[i].recommended
          /\ output.clips[j].relevance_score < 70 /\ ~output.clips[j].recommended
          /\ output.clips[k].relevance_score > 70
    /\ output.high_quality_clips >= 2

\* C12: the output list holds exactly the candidates of the videos whose call
\* succeeded, each once, in non-increasing order of score; candidates of
\* equal score keep the order of the videos and, within a video, the order in
\* which the response listed them.
C12_StableSortedPermutation ==
    output.kind = "result" =>
        LET out == output.clips
            all == Produced(returned)
        IN  /\ Len(out) = Len(all)
            /\ \A i \in 1..Len(all) : \E j \in 1..Len(out) : out[j] = all[i]
            /\ \A i, j \in 1..Len(out) :
                  i < j => out[i].relevance_score >= out[j].relevance_score
            /\ \A i, j \in 1..Len(out) :
                  (i < j /\ out[i].relevance_score = out[j].relevance_score) =>
                     \/ out[i].source_video < out[j].source_video
                     \/ /\ out[i].source_video = out[j].source_video
                        /\ out[i].start_time < out[j].start_time

\* an output the sort reordered, with a tie across two videos and a tie
\* within one video
C12_Witness ==
    /\ output.kind = "result"
    /\ output.clips # Produced(returned)
    /\ \E i, j \in 1..Len(output.clips) :
          /\ i < j
          /\ output.clips[i].relevance_score = output.clips[j].relevance_score
          /\ output.clips[i].source_video < output.clips[j].source_video
    /\ \E i, j \in 1..Len(output.clips) :
          /\ i < j
          /\ output.clips[i].relevance_score = output.clips[j].relevance_score
          /\ output.clips[i].source_video = output.clips[j].source_video

----------------------------------------------------------------------------
(* Properties of the refinement of one clip (specification SpecTier2) *)

\* the refinement returned a result with refined timestamps
Refined == t2result.kind = "return" /\ t2result.has_refined

\* the centre of the estimate and the requested, unclamped window start
Center == CenterTime(approx_start, approx_end)
RequestedStart == Center - Sec(window_padding)

\* C13: in every successful refinement the refined start and end are the
\* model's window-relative values plus the window start the extraction
\* reported, which is the requested start clamped at 0, and the duration is
\* end minus start.
C13_AbsoluteFromWindowStart ==
    Refined =>
        LET W == extraction_result.window_start
        IN  /\ W = Max(0, RequestedStart)
            /\ t2result.extraction_window.window_start = W
            /\ t2result.tier2_refined.start = W + t2response.timestamp.start_seconds
            /\ t2result.tier2_refined.end = W + t2response.timestamp.end_seconds
            /\ t2result.tier2_refined.duration =
                  t2result.tier2_refined.end - t2result.tier2_refined.start

\* centre 5.0 with padding 20: the requested start is -15.0, the window
\* starts at 0.0 and the refined start is the model's 5.2
C13_Witness ==
    /\ Refined
    /\ Center = Sec(5) /\ window_padding = 20
    /\ RequestedStart = -Sec(15)
    /\ extraction_result.window_start = 0
    /\ t2response.timestamp.start_seconds = 104
    /\ t2result.tier2_refined.start = 104

\* a window that was not clamped: estimate 83-88, window start 65.5
C13_WitnessUnclamped ==
    /\ Refined
    /\ approx_start = Sec(83) /\ approx_end = Sec(88) /\ window_padding = 20
    /\ extraction_result.window_start = 1310
    /\ t2result.tier2_refined.start = 1310 + 104

\* C14: the window handed to ffmpeg and recorded by the extraction starts at
\* max(0, centre - padding) and ends at centre + padding, also when the
\* start was clamped.
C14_WindowInterval ==
    extraction_result.success =>
        /\ ffmpeg_cmd.ss = Max(0, RequestedStart)
        /\ ffmpeg_cmd.ss + ffmpeg_cmd.t = Center + Sec(window_padding)
        /\ extraction_result.window_start = Max(0, RequestedStart)
        /\ extraction_result.window_end = Center + Sec(window_padding)

\* the inference call of the refinement failed: retries exhausted or a
\* response that is not JSON
InferenceFailed ==
    t2response.kind = "raise" /\ t2response.error \in {"Fatal", "Malformed"}

\* C15: when the inference call fails, refine_clip returns a result without
\* refined timestamps, with confidence 0.0, all_checks_pass false and an
\* issue naming the failure, which still carries the Tier 1 estimate and the
\* extraction window.
C15_InferenceFailureResult ==
    InferenceFailed =>
        /\ t2result.kind = "return"
        /\ ~t2result.has_refined
        /\ t2result.confidence = 0
        /\ ~t2result.all_checks_pass
        /\ t2result.issues = << <<"Analysis failed: ", t2response.error>> >>
        /\ t2result.tier1_estimate = [start |-> approx_start, end |-> approx_end]
        /\ t2result.extraction_window = extraction_result
        /\ extraction_result.success

\* retries exhausted: the failure result was printed and the exit status is 2
C15_Witness ==
    /\ rpc = "done"
    /\ t2response.kind = "raise" /\ t2response.error = "Fatal"
    /\ t2result.kind = "return" /\ ~t2result.has_refined
    /\ t2exit = 2

\* C16: when the window extraction fails, refine_clip returns a result
\* without refined timestamps, with confidence 0.0 and an issue describing
\* the extraction failure.
C16_ExtractionFailureResult ==
    (rpc = "done" /\ ffmpeg_cmd.run /\ ~extraction_result.success) =>
        /\ t2result.kind = "return"
        /\ ~t2result.has_refined
        /\ t2result.confidence = 0
        /\ t2result.issues # <<>>

\* the checks of the response that came back true
ChecksTrue == {c \in T2Checks : t2response.validation.checks[c] = "true"}

\* the result is signalled as acceptable for automatic use
AutoAcceptable == t2result.all_checks_pass /\ t2exit = 0

\* C17: a finished refinement reports all_checks_pass true together with
\* exit status 0 only if the five checks are all true and the confidence is
\* at least 0.70; with confidence 0.95 it does so when the five checks are
\* true and does not when one of them is false.
C17_AutoAcceptGate ==
    (rpc = "done" /\ t2result.kind = "return") =>
        /\ AutoAcceptable => (ChecksTrue = T2Checks /\ t2result.confidence >= 70)
        /\ (Refined /\ t2result.confidence = 95 /\ ChecksTrue = T2Checks)
              => AutoAcceptable
        /\ (Refined /\ t2result.confidence = 95 /\ ChecksTrue # T2Checks)
              => ~AutoAcceptable

\* confidence 0.95 with exactly one check false: all_checks_pass is false
C17_Witness ==
    /\ rpc = "done" /\ Refined
    /\ t2result.confidence = 95
    /\ Cardinality(ChecksTrue) = 4
    /\ \E c \in T2Checks : t2response.validation.checks[c] = "false"
    /\ ~t2result.all_checks_pass

\* confidence 0.95 with the five checks true: signalled acceptable
C17_WitnessAccepted ==
    /\ rpc = "done" /\ Refined
    /\ t2result.confidence = 95 /\ ChecksTrue = T2Checks
    /\ AutoAcceptable

----------------------------------------------------------------------------
(* Properties of the human session (specification SpecTier3) *)

\* the lines of the whole session, read or not
SessionLines == answers \o stdin

\* the session is over and its record or error was printed
SessionOver == hpc = "done" /\ t3exit # -1 /\ prompts # <<>>

\* C18: a session whose usability answer is 'no' and whose reason was typed
\* ends rejected, and one whose usability answer is 'skip' ends skipped; both
\* records are not usable, carry no corrected timestamp, and neither the
\* issue-type question nor the timestamp question was shown.
C18_RejectAndSkip ==
    SessionOver =>
        /\ (Len(answers) = 2 /\ answers[1] \in {<<"n">>, <<" ", "N">>}
              /\ answers[2] # SIGINT) =>
              /\ t3result.kind = "return" /\ t3result.final_status = "reject"
              /\ t3result.reason = answers[2]
              /\ ~t3result.usable_by_orchestrator /\ ~t3result.has_corrected
              /\ prompts = <<"usable", "reason">>
              /\ t3exit = 2
        /\ (answers # <<>> /\ answers[1] = <<"s">>) =>
              /\ t3result.kind = "return" /\ t3result.final_status = "skip"
              /\ ~t3result.usable_by_orchestrator /\ ~t3result.has_corrected
              /\ prompts = <<"usable">>
              /\ Len(answers) = 1
              /\ t3exit = 2

\* the answer " N" followed by a reason: rejected
C18_Witness ==
    /\ SessionOver
    /\ answers = << <<" ", "N">>, <<"wrong clip">> >>
    /\ t3result.final_status = "reject"
    /\ t3exit = 2

\* the answer "s" with further lines waiting: skipped, nothing more is read
C18_WitnessSkip ==
    /\ SessionOver
    /\ answers = << <<"s">> >> /\ stdin # <<>>
    /\ t3result.final_status = "skip"

\* C19: the session ['y', 'g'] ends with status accepted_as_is, usable, no
\* corrected timestamp, and without a timestamp question.
C19_AcceptAsIs ==
    (SessionOver /\ Len(SessionLines) >= 2
       /\ SessionLines[1] = <<"y">> /\ SessionLines[2] = <<"g">>) =>
        /\ t3result.kind = "return"
        /\ t3result.final_status = "accepted_as_is"
        /\ t3result.usable_by_orchestrator
        /\ ~t3result.has_corrected
        /\ prompts = <<"usable", "issue_type">>
        /\ t3exit = 0

C19_Witness ==
    /\ SessionOver
    /\ answers = << <<"y">>, <<"g">> >> /\ stdin = <<>>
    /\ t3result.final_status = "accepted_as_is"
    /\ t3exit = 0

\* C20: with window start W the session ['y', 'b', '3.0', '9.0', ''] ends
\* with status refined_by_human, usable, and the corrected timestamp
\* {W + 3.0, W + 9.0, 6.0}.
C20_RefinedByHuman ==
    (SessionOver
       /\ SessionLines = << <<"y">>, <<"b">>, <<"3", ".", "0">>, <<"9", ".", "0">>, <<>> >>) =>
        /\ t3result.kind = "return"
        /\ t3result.final_status = "refined_by_human"
        /\ t3result.usable_by_orchestrator
        /\ t3result.has_corrected
        /\ t3result.corrected_timestamp =
              [start |-> h_window_start + Sec(3), end |-> h_window_start + Sec(9),
               duration |-> Sec(6)]

\* the session took a wrong-timestamp branch: 'y', then an issue type
\* other than 'g', and no interrupt among the lines it was given
WrongTimestampBranch ==
    /\ Len(SessionLines) >= 2
    /\ SessionLines[1] = <<"y">>
    /\ SessionLines[2] \in {<<"s">>, <<"e">>, <<"b">>, <<"o">>}
    /\ \A i \in 1..Len(SessionLines) : SessionLines[i] # SIGINT

\* the questions the issue type asks for
AxisPrompts(issue_type) ==
    CASE issue_type = <<"s">> -> <<"start">>
      [] issue_type = <<"e">> -> <<"end">>
      [] issue_type = <<"b">> -> <<"start", "end">>
      [] OTHER -> <<>>

\* C21: a session that takes a wrong-timestamp branch asks for the start only
\* for 's', the end only for 'e', both for 'b' and neither for 'o', ends
\* refined_by_human, and an axis that was not asked for has the model's
\* value for that axis plus the window start.
C21_AxisPrompts ==
    (SessionOver /\ WrongTimestampBranch /\ Len(SessionLines) >= 5) =>
        /\ t3result.kind = "return"
        /\ t3result.final_status = "refined_by_human"
        /\ SelectSeq(prompts, LAMBDA q : q \in {"start", "end"})
              = AxisPrompts(SessionLines[2])
        /\ SessionLines[2] \in {<<"e">>, <<"o">>} =>
              t3result.corrected_timestamp.start = h_window_start + h_model_start
        /\ SessionLines[2] \in {<<"s">>, <<"o">>} =>
              t3result.corrected_timestamp.end = h_window_start + h_model_end

\* C22: a session in which a requested start gets an answer that is not a
\* number still ends refined_by_human, and the start of the result is the
\* model's start plus the window start.
C22_MalformedNumberFallsBack ==
    (SessionOver /\ WrongTimestampBranch
       /\ SessionLines = << <<"y">>, <<"s">>, <<"abc">>, <<>> >>) =>
        /\ t3result.kind = "return"
        /\ t3result.final_status = "refined_by_human"
        /\ t3result.corrected_timestamp.start = h_window_start + h_model_start

\* input() was interrupted: the last line taken from the input is SIGINT
Interrupted == answers # <<>> /\ Last(answers) = SIGINT

\* C23: an interrupt at a question of the session ends it with the record
\* {final_status: cancelled}, which is not usable, printed by main's handler
\* (exit status 130), and with no other error.
C23_InterruptCancels ==
    Interrupted =>
        /\ hpc = "done"
        /\ t3result.kind = "cancelled"
        /\ t3result.final_status = "cancelled"
        /\ ~t3result.usable_by_orchestrator
        /\ t3exit = 130

\* interrupts at the usability, the reason and the issue-type question
C23_Witness ==
    /\ Interrupted
    /\ prompts = <<"usable", "reason">>
    /\ t3result.final_status = "cancelled"

C23_WitnessIssueType ==
    /\ Interrupted
    /\ prompts = <<"usable", "issue_type">>
    /\ t3result.final_status = "cancelled"

C23_WitnessUsable ==
    /\ Interrupted
    /\ prompts = <<"usable">>
    /\ t3result.final_status = "cancelled"

\* the session printed a record (not an error message)
RecordEmitted == SessionOver /\ t3result.kind \in {"return", "cancelled"}

\* C24: the record of every terminal state holds the final status and the
\* usable_by_orchestrator flag, and the record of a refined session also the
\* corrected start, end and duration = end - start.
C24_TerminalRecordFields ==
    RecordEmitted =>
        /\ t3result.final_status # ""
        /\ t3result.has_usable
        /\ t3result.final_status = "refined_by_human" =>
              /\ t3result.has_corrected
              /\ t3result.corrected_timestamp.duration =
                    t3result.corrected_timestamp.end - t3result.corrected_timestamp.start

\* C25: the final status of every record a session prints is one of
\* accepted_as_is, refined_by_human, refined_automatically, rejected,
\* skipped, cancelled.
C25_FinalStatusValues ==
    RecordEmitted =>
        t3result.final_status \in {"accepted_as_is", "refined_by_human",
                                   "refined_automatically", "rejected", "skipped",
                                   "cancelled"}

----------------------------------------------------------------------------
(* Failure records of the identification run (specification SpecTier1) *)

\* The records of the output: the result dict of lines 220-228 holds one
\* list of records, "clips"; its other keys are the time, the keywords, the
\* file names and three numbers.
OutputRecords == output.clips

\* C26: when the call for a video fails, the output of the run holds a record
\* for that video that carries the error; stated here by what that needs at
\* the least, a record of the output that belongs to the video.
C26_FailureRecorded ==
    output.kind = "result" =>
        \A i \in 1..Len(returned) :
            returned[i].kind = "raise" =>
                \E k \in 1..Len(OutputRecords) :
                    OutputRecords[k].source_video = calls[i]

----------------------------------------------------------------------------
(* Missing keys in the model's answer (specification SpecTier2) *)

\* C30: a response that is a JSON object does not make the refinement fail
\* whichever of its keys are missing: the result has refined timestamps, a
\* missing check is reported false, a missing confidence 0.5 and a missing
\* issue list empty.
C30_MissingKeysDefaulted ==
    (t2response.kind = "dict" /\ t2result.kind # "none") =>
        /\ Refined
        /\ \A c \in T2Checks :
              t2response.validation.checks[c] = "missing" => t2result.checks[c] = FALSE
        /\ ~t2response.validation.has_confidence => t2result.confidence = 50
        /\ ~t2response.validation.has_issues => t2result.issues = <<>>

----------------------------------------------------------------------------
(* Refinements side by side (specification SpecWorkspace) *)

\* C27: two refinements never have the same window clip name, and the clip a
\* refinement analyzes is the one it extracted, so that the window start it
\* adds is the start of the window the model saw.
C27_WindowNotShared ==
    /\ \A j, k \in Jobs :
          (j # k /\ jobs[j].window_output # <<>> /\ jobs[k].window_output # <<>>)
             => jobs[j].window_output # jobs[k].window_output
    /\ \A j \in Jobs :
          jobs[j].pc = "done" =>
             /\ jobs[j].analyzed.owner = j
             /\ jobs[j].analyzed.window_start = jobs[j].window_start

----------------------------------------------------------------------------
(* Concurrent calls (specification SpecThreads) *)

\* the delays call t slept, in order
ThreadDelays(t) == [n \in 1..Len(ThreadSleeps(t)) |-> ThreadSleeps(t)[n].d]

\* C28: in every interleaving each call makes at most 5 attempts, and a call
\* that is over made the attempts, slept the delays and got the result that
\* its own transport's failures determine: k failures give min(k + 1, 5)
\* requests, the first min(k, 4) delays of 1, 2, 4, 8, and either the answer
\* or, for k = 5, the fatal error wrapping its own fifth failure.
C28_CallsDoNotInterfere ==
    \A i \in DOMAIN threads :
        LET t == threads[i]
            k == Len(t.script.fails)
        IN  /\ Len(ThreadRequests(t)) <= MAX_RETRIES
            /\ t.attempt <= MAX_RETRIES
            /\ t.pc = "done" =>
                  /\ Len(ThreadRequests(t)) = Min(k + 1, MAX_RETRIES)
                  /\ ThreadDelays(t) = SubSeq(BACKOFF_DELAYS, 1, Min(k, MAX_RETRIES - 1))
                  /\ IF k = MAX_RETRIES
                     THEN t.result.kind = "Fatal"
                          /\ t.result.cause = [kind |-> "exc", id |-> 10 * i + MAX_RETRIES]
                     ELSE t.result.kind = "return"

\* two OpenAI-compatible calls that both saw no client and both created one;
\* the first has failed three times while the second is still at its first
\* attempt
C28_Witness ==
    /\ threads # <<>>
    /\ threads[1].p = "openai" /\ threads[2].p = "openai"
    /\ openai_client = "OpenAI"
    /\ threads[1].pc = "sleep" /\ threads[1].attempt = 2
    /\ Len(ThreadRequests(threads[1])) = 3
    /\ threads[2].pc = "create"

\* both calls over: one exhausted its retries, the other returned after two
\* failures
C28_WitnessDone ==
    /\ threads # <<>>
    /\ threads[1].pc = "done" /\ threads[1].result.kind = "Fatal"
    /\ threads[2].pc = "done" /\ threads[2].result.kind = "return"
    /\ ThreadDelays(threads[2]) = <<1, 2>>

----------------------------------------------------------------------------
(* Interrupting a refinement (specification SpecRefineCall) *)

\* C29: a refinement that is interrupted inside the client's retry loop ends
\* with a result record that is not usable.
C29_InterruptLeavesRecord ==
    (rpc = "done" /\ result.kind = "KeyboardInterrupt") =>
        /\ t2result.kind = "return"
        /\ ~t2result.has_refined
        /\ t2exit # 0

----------------------------------------------------------------------------
(* Coordinates of returned records (specification SpecRecords) *)

\* C31: every timestamp of a returned Tier2 or Tier3 record is the
\* window-relative value plus the start of the window it was measured in.
C31_RecordsSourceAbsolute ==
    /\ Refined =>
          /\ t2result.extraction_window.window_start = ffmpeg_cmd.ss
          /\ t2result.tier2_refined.start
                = t2response.timestamp.start_seconds + ffmpeg_cmd.ss
          /\ t2result.tier2_refined.end
                = t2response.timestamp.end_seconds + ffmpeg_cmd.ss
    /\ (t3result.kind = "return" /\ t3exit # -1) =>
          /\ t3result.model_suggestion.start = h_window_start + h_model_start
          /\ t3result.model_suggestion.end = h_window_start + h_model_end
    /\ (t3result.kind = "return" /\ t3result.has_corrected) =>
          /\ t3result.corrected_timestamp.start
                = h_window_start + human_response.corrected_timestamp.start_seconds
          /\ t3result.corrected_timestamp.end
                = h_window_start + human_response.corrected_timestamp.end_seconds

\* a corrected timestamp of a window that starts after the source's start
C31_Witness ==
    /\ hpc = "done"
    /\ t3result.kind = "return"
    /\ t3result.has_corrected
    /\ h_window_start > 0
    /\ t3result.corrected_timestamp.start
          # human_response.corrected_timestamp.start_seconds

\* a refined Tier2 timestamp of such a window
C31_WitnessTier2 ==
    /\ rpc = "done"
    /\ Refined
    /\ ffmpeg_cmd.ss > 0
    /\ t2result.tier2_refined.start # t2response.timestamp.start_seconds

\* a Tier3 record of a session, with the model's suggestion
C31_WitnessSuggestion ==
    /\ hpc = "done"
    /\ t3result.kind = "return"
    /\ t3exit = 0
    /\ h_window_start > 0
    /\ t3result.model_suggestion.start = h_window_start + 104

----------------------------------------------------------------------------
(* Tier3 sessions, continued (specification SpecTier3) *)

\* C32: every rejected result carries a reason text that is not empty.
C32_RejectedHasReason ==
    (SessionOver /\ t3result.kind = "return" /\ t3result.final_status = "reject") =>
        /\ t3result.has_reason
        /\ t3result.reason # <<>>

----------------------------------------------------------------------------
(* analyze_video_structured, continued (specification SpecStructured) *)

\* C33: for every text analyze_video returns, the structured call returns
\* the parsed value or raises the malformed-response error; it fails in no
\* other way.
C33_ParsedOrMalformed ==
    (spc = "done" /\ sresult.kind # "Fatal") =>
        sresult.kind \in {"return", "Malformed"}

----------------------------------------------------------------------------
(* The structured call over the retry loop (specification SpecStructuredRetry) *)

\* a transport attempt of the call has returned a response
ResponseReturned == response.shape # "none"

\* C34: once a transport attempt has returned a response, the structured
\* call makes no further request and no backoff sleep, whether or not the
\* text parses.
C34_NoRetryAfterResponse ==
    [][ResponseReturned => events' = events]_vars

\* a text that is not JSON ended the call, after one failed attempt and its
\* backoff sleep, and the response was the last thing asked of the transport
C34_Witness ==
    /\ spc = "done"
    /\ sresult.kind = "Malformed"
    /\ ResponseReturned
    /\ Len(Sleeps) = 1
    /\ Len(Requests) = 2
    /\ Last(events).e = "req"

\* a text that parsed ended the call
C34_WitnessParsed ==
    /\ spc = "done"
    /\ sresult.kind = "return"
    /\ ResponseReturned
    /\ Len(Requests) = 1

----------------------------------------------------------------------------
(* Range of the relevance score (specification SpecScore) *)

\* C35: for every clip and keyword list the score lies in 0.0 .. 1.0, and
\* the tag fraction and the description fraction (matches over the number
\* of keywords, at least 1) lie in 0.0 .. 1.0.
C35_ScoreInRange ==
    kpc = "done" =>
        LET n == Max(Len(keywords), 1)
        IN  /\ score \in 0..100
            /\ TagMatches(clip, keywords) \in 0..n
            /\ DescMatches(clip, keywords) \in 0..n

\* the top of the range, with a keyword given twice
C35_Witness ==
    /\ kpc = "done"
    /\ keywords = << <<"tools">>, <<"tools">> >>
    /\ TagMatches(clip, keywords) = 2
    /\ DescMatches(clip, keywords) = 2
    /\ score = 100

\* no keywords, no tags, no description
C35_WitnessEmpty ==
    /\ kpc = "done"
    /\ keywords = <<>>
    /\ ~clip.has_tags
    /\ clip.description = <<>>
    /\ score = 12

----------------------------------------------------------------------------
(* Order of the steps of a refinement (specification SpecRefineCall) *)

\* the logical inference call of the refinement has started
CallStarted == pc # "idle"

\* C36: one extraction is requested and never a second one; the inference
\* call starts only after the extraction succeeded and starts at most once;
\* after a failed extraction no inference attempt is made.
C36_StepsOrdered ==
    /\ [](/\ rpc \in {"analyze", "in_call", "report"} => ffmpeg_cmd.run
          /\ (CallStarted \/ events # <<>>) =>
                 ffmpeg_cmd.run /\ extraction_result.success
          /\ (ffmpeg_cmd.run /\ ~extraction_result.success) =>
                 ~CallStarted /\ events = <<>> /\ t2response = NoT2Response)
    /\ [][/\ ffmpeg_cmd.run => ffmpeg_cmd' = ffmpeg_cmd
          /\ CallStarted => pc' # "analyze_video" \/ pc = "analyze_video"
          /\ CallStarted => CallStarted']_vars

\* the one call made three requests after the extraction succeeded
C36_Witness ==
    /\ rpc = "done"
    /\ extraction_result.success
    /\ Len(Requests) = 3
    /\ t2result.kind = "return"

\* the extraction failed and the refinement ended without a request
C36_WitnessNoInference ==
    /\ rpc = "done"
    /\ ffmpeg_cmd.run
    /\ ~extraction_result.success
    /\ t2result.error = "ffmpeg extraction failed"
    /\ events = <<>>

----------------------------------------------------------------------------
(* Length of a Tier3 session (specification SpecTier3Fair) *)

\* the lines a session has read (an interrupt is not a line)
LinesRead == SelectSeq(answers, LAMBDA a : a # SIGINT)

\* the place of a prompt in the order of the questions
PromptRank(p) ==
    CASE p = "usable" -> 1
      [] p = "reason" -> 2
      [] p = "issue_type" -> 2
      [] p = "timestamps" -> 3
      [] OTHER -> 4

\* C37: every session ends; it reads at most 5 lines, exactly 1 on skip and
\* exactly 2 on reject and on accept, and no prompt is shown after a later one.
C37_SessionBounded ==
    /\ <>(hpc = "done")
    /\ [](/\ Len(LinesRead) <= 5
          /\ \A i, j \in 1..Len(prompts) :
                i < j => PromptRank(prompts[i]) < PromptRank(prompts[j])
          /\ (hpc = "done" /\ t3result.kind = "return") =>
                Len(LinesRead) = (IF t3result.final_status = "skip" THEN 1 ELSE 2))

\* a rejection after two lines, with more lines left unread
C37_Witness ==
    /\ hpc = "done"
    /\ t3result.final_status = "reject"
    /\ Len(LinesRead) = 2
    /\ Len(stdin) = 3

\* a skip after one line
C37_WitnessSkip ==
    /\ hpc = "done"
    /\ t3result.final_status = "skip"
    /\ Len(LinesRead) = 1
    /\ stdin # <<>>

\* an acceptance after two lines
C37_WitnessAccept ==
    /\ hpc = "done"
    /\ t3result.final_status = "accepted_as_is"
    /\ Len(LinesRead) = 2

----------------------------------------------------------------------------
(* Answers outside the listed choices (specification SpecTier3) *)

\* the session was given a first answer other than 'n' and 's', a second
\* answer that is none of g, s, e, b, a line for the feedback question, and
\* no interrupt
UnlistedIssueType ==
    /\ Len(SessionLines) >= 3
    /\ \A i \in 1..Len(SessionLines) : SessionLines[i] # SIGINT
    /\ NormalizeAnswer(SessionLines[1]) \notin {<<"n">>, <<"s">>}
    /\ NormalizeAnswer(SessionLines[2]) \notin {<<"g">>, <<"s">>, <<"e">>, <<"b">>}

\* C38: a usability answer other than 'n' and 's' leads to the issue-type
\* question, and an issue-type answer outside g, s, e, b leads to a
\* refined_by_human record that asks for no axis and keeps both values of
\* the model; no question is asked twice.
C38_InputTotal ==
    /\ (Len(prompts) >= 2 /\ NormalizeAnswer(answers[1]) \notin {<<"n">>, <<"s">>}) =>
          prompts[2] = "issue_type"
    /\ \A i, j \in 1..Len(prompts) : i < j => prompts[i] # prompts[j]
    /\ (SessionOver /\ UnlistedIssueType) =>
          /\ t3result.kind = "return"
          /\ t3result.final_status = "refined_by_human"
          /\ SelectSeq(prompts, LAMBDA q : q \in {"start", "end"}) = <<>>
          /\ t3result.corrected_timestamp.start = h_window_start + h_model_start
          /\ t3result.corrected_timestamp.end = h_window_start + h_model_end

----------------------------------------------------------------------------
(* Exit status of a refinement (specification SpecTier2) *)

\* the response object has no "confidence" under "validation"
NoConfidence ==
    t2response.kind = "dict" /\ t2response.has_validation
        /\ ~t2response.validation.has_confidence

\* C39: the exit status is never 0 when the inference call raised or the
\* response has no confidence; a failure result has confidence 0.0, a
\* missing confidence counts as 0.5 and a missing check as false.
C39_NoFalseSuccess ==
    /\ (t2response.kind = "raise" \/ NoConfidence) => t2exit # 0
    /\ (t2result.kind = "return" /\ ~t2result.has_refined) =>
          t2result.confidence = 0 /\ ~t2result.all_checks_pass
    /\ (Refined /\ NoConfidence) => t2result.confidence = 50
    /\ Refined =>
          \A c \in T2Checks :
             t2response.validation.checks[c] = "missing" =>
                ~t2result.checks[c] /\ ~t2result.all_checks_pass

\* five true checks and no confidence: refined, but exit status 2
C39_Witness ==
    /\ rpc = "done"
    /\ Refined
    /\ NoConfidence
    /\ ChecksTrue = T2Checks
    /\ t2result.all_checks_pass
    /\ t2result.confidence = 50
    /\ t2exit = 2

\* confidence 0.95 and one check missing
C39_WitnessMissingCheck ==
    /\ rpc = "done"
    /\ Refined
    /\ t2result.confidence = 95
    /\ \E c \in T2Checks : t2response.validation.checks[c] = "missing"
    /\ Cardinality(ChecksTrue) = 4
    /\ ~t2result.all_checks_pass

----------------------------------------------------------------------------
(* Usable flag, corrected timestamp and exit status (specification SpecRecords) *)

\* the record says it is usable
SaysUsable == t3result.has_usable /\ t3result.usable_by_orchestrator

\* C40: in every returned Tier3 record the usable flag is true exactly for
\* accepted_as_is and refined_by_human, a corrected timestamp is present
\* exactly for refined_by_human, and the process exits 0 exactly when the
\* record is usable, 2 for a disposition that is not, 130 when cancelled.
C40_UsableStatusExit ==
    t3result.kind \in {"return", "cancelled"} =>
        /\ SaysUsable <=> t3result.final_status \in {"accepted_as_is", "refined_by_human"}
        /\ t3result.has_corrected <=> t3result.final_status = "refined_by_human"
        /\ t3exit # -1 =>
              /\ t3exit = 0 <=> SaysUsable
              /\ (t3result.kind = "return" /\ ~SaysUsable) => t3exit = 2
              /\ t3result.kind = "cancelled" => t3exit = 130

\* a rejection: not usable, no corrected timestamp, exit status 2
C40_Witness ==
    /\ hpc = "done"
    /\ t3result.kind = "return"
    /\ human_response.action = "reject"
    /\ ~SaysUsable
    /\ ~t3result.has_corrected
    /\ t3exit = 2

\* an acceptance: usable, exit status 0
C40_WitnessAccepted ==
    /\ hpc = "done"
    /\ t3result.final_status = "accepted_as_is"
    /\ SaysUsable
    /\ t3exit = 0

\* a record of apply_human_corrections for a correction
C40_WitnessRefined ==
    /\ hpc = "done"
    /\ t3result.final_status = "refined_by_human"
    /\ SaysUsable
    /\ t3result.has_corrected

\* a cancellation
C40_WitnessCancelled ==
    /\ hpc = "done"
    /\ t3result.kind = "cancelled"
    /\ t3exit = 130

====
